---- MODULE Spec2Model ----
(***************************************************************************)
(* Traffic simulation of src/Intro-To-raylib-Tutorial-main/src/main.cpp:   *)
(* two roads of three lanes, traffic lights, cars, ambulances, tow trucks  *)
(* and the accident life cycle (pending -> active -> towed -> removed).    *)
(*                                                                         *)
(* Numbers.  The program computes in float.  The model computes in fixed   *)
(* point: a length or a speed is a whole number of 1/Scale pixels, a time  *)
(* a whole number of 1/TimeScale seconds.  Every speed the program can     *)
(* produce (2.0 + k/10, times 2.8 or 0.4, 4.5, 3.5) is exact at this       *)
(* resolution; the lane smoothing (y += (targetY - y) * 0.08) is rounded   *)
(* toward zero at this resolution.                                         *)
(*                                                                         *)
(* Pointers.  A Vehicle* is the id of the vehicle it points to, NULL for   *)
(* nullptr; a pointer dangles when no vehicle of the collection has its    *)
(* id.  Ids are never reused.                                              *)
(***************************************************************************)
EXTENDS Integers, Sequences, FiniteSets, TLC

\* ------------------------------------------------------------ units
Scale == 100
TimeScale == 1000
Px(n) == n * Scale
Sec(n) == n * TimeScale

\* ------------------------------------------------------------ program constants
SCREEN_WIDTH == 1600
ROAD_HEIGHT == 140
LANE_HEIGHT == 45
VEHICLE_WIDTH == 90
SAFE_DISTANCE == 45
ROAD_Y_TOP == 110
ROAD_Y_BOTTOM == 280
NULL == 0

\* ------------------------------------------------------------ bounds of the model
\* The frame time fed to Update, in 1/TimeScale seconds.
DeltaMs == 1000
\* Cars spawned on the bottom road, ambulances and tow trucks called, over a run.
MaxCarsBottom == 2
MaxAmbulances == 1
MaxTows == 2
\* Key presses and the random accident arrive on every KeyPeriod-th frame.
KeyPeriod == 200
\* The same for the runs of SpecTrigger.
MaxCarsTrigger == 3
KeyPeriodTrigger == 100
\* The same for the runs of SpecRoads.
MaxCarsTopRoads == 2
MaxCarsBottomRoads == 2
MaxAmbulancesRoads == 1
KeyPeriodRoads == 200
\* The same for the runs of SpecCrashes.
MaxCarsCrashes == 4
MaxAmbulancesCrashes == 1
MaxTowsCrashes == 1
KeyPeriodCrashes == 200
\* The same for the runs of SpecTop.
MaxCarsTopOnly == 2
KeyPeriodTop == 1

Abs(n) == IF n < 0 THEN -n ELSE n

\* Truncating division by a positive number (C++ float product, rounded toward zero).
TruncDiv(a, b) == IF a >= 0 THEN a \div b ELSE -((-a) \div b)

laneYTop(i) == Px(ROAD_Y_TOP) + Px(10) + i * Px(LANE_HEIGHT)
laneYBottom(i) == Px(ROAD_Y_BOTTOM) + Px(10) + i * Px(LANE_HEIGHT)

\* ------------------------------------------------------------ TrafficLight
NewLight(x, y, cycle) == [boxX |-> x, timer |-> 0, red |-> TRUE, cycleTime |-> cycle]

\* LightUpdate flipping only once the timer is past cycleTime.
LightUpdate_Late(l, delta) ==
    LET t == l.timer + delta
    IN  IF t > l.cycleTime
        THEN [l EXCEPT !.timer = 0, !.red = ~l.red]
        ELSE [l EXCEPT !.timer = t]

LightUpdate(l, delta) ==
    LET t == l.timer + delta
    IN  IF t >= l.cycleTime
        THEN [l EXCEPT !.timer = 0, !.red = ~l.red]
        ELSE [l EXCEPT !.timer = t]

GetStopLineX(l, rightToLeft) ==
    IF rightToLeft THEN l.boxX - Px(40) ELSE l.boxX + Px(20) + Px(40)

\* ------------------------------------------------------------ Vehicle
NewVehicle(id, kind, startX, startY, spd, dir) ==
    [id |-> id, kind |-> kind, x |-> startX, y |-> startY, targetY |-> startY,
     speed |-> spd, moving |-> TRUE, dirRight |-> dir, changedLane |-> FALSE,
     forcedStop |-> FALSE, isCrashed |-> FALSE, toBeRemoved |-> FALSE,
     isReckless |-> FALSE, isAccidentTarget |-> FALSE, isTowed |-> FALSE,
     laneLock |-> FALSE, towOffsetX |-> 0,
     \* Ambulance
     state |-> "PATROL", stateTimer |-> 0, accidentX |-> 0, accidentY |-> 0,
     \* Depannage
     hasPickedUp |-> FALSE, targetX |-> 0, workTimer |-> 0, isWorking |-> FALSE]

NewCar(id, startX, startY, spd, dir) == NewVehicle(id, "car", startX, startY, spd, dir)
NewAmbulance(id, startX, startY, spd) == NewVehicle(id, "ambulance", startX, startY, spd, FALSE)
NewDepannage(id, startX, startY, spd) == NewVehicle(id, "depannage", startX, startY, spd, FALSE)

IsAmbulance(v) == v.kind = "ambulance"
IsDepannage(v) == v.kind = "depannage"
IsOffScreen(v) ==
    IF v.dirRight THEN v.x > Px(SCREEN_WIDTH) + Px(200) ELSE v.x < -Px(200)

\* Lane changing smoothing, the tail of every Update override (an ambulance on
\* patrol runs it twice a frame: in Vehicle::Update and in its own Update).
LaneSmoothing(v) ==
    IF Abs(v.targetY - v.y) > Px(1) \div 2
    THEN [v EXCEPT !.y = v.y + TruncDiv((v.targetY - v.y) * 8, 100)]
    ELSE [v EXCEPT !.y = v.targetY]

VehicleUpdate(v, stopForRed) ==
    IF v.isCrashed /\ ~v.isTowed THEN v
    ELSE IF v.isTowed THEN v
    ELSE LET stop == IF v.isReckless THEN FALSE ELSE stopForRed
             w == IF v.isReckless THEN [v EXCEPT !.forcedStop = FALSE] ELSE v
             m == IF w.moving /\ ~stop /\ ~w.forcedStop
                  THEN [w EXCEPT !.x = IF w.dirRight THEN w.x + w.speed ELSE w.x - w.speed]
                  ELSE w
         IN  LaneSmoothing(m)

AssignAccident(v, accX, accY) ==
    [v EXCEPT !.accidentX = accX, !.accidentY = accY, !.state = "TO_ACCIDENT"]

\* AmbulanceUpdate that stops where the step takes it instead of at accidentX + 160.
AmbulanceUpdate_NoSnap(v, frameTime) ==
    LET w ==
        CASE v.state = "PATROL" -> VehicleUpdate(v, FALSE)
          [] v.state = "TO_ACCIDENT" ->
                LET nx == IF v.dirRight THEN v.x + v.speed ELSE v.x - v.speed
                IN  IF nx <= v.accidentX + Px(160)
                    THEN [v EXCEPT !.x = nx,
                                   !.state = "WAIT_AT_ACCIDENT", !.stateTimer = 0]
                    ELSE [v EXCEPT !.x = nx]
          [] v.state = "WAIT_AT_ACCIDENT" ->
                LET t == v.stateTimer + frameTime
                IN  IF t >= Sec(5)
                    THEN [v EXCEPT !.stateTimer = t, !.state = "TO_HOSPITAL"]
                    ELSE [v EXCEPT !.stateTimer = t]
          [] v.state = "TO_HOSPITAL" ->
                IF v.x > Px(80)
                THEN [v EXCEPT !.x = v.x - v.speed]
                ELSE [v EXCEPT !.state = "WAIT_AT_HOSPITAL", !.stateTimer = 0]
          [] v.state = "WAIT_AT_HOSPITAL" ->
                LET t == v.stateTimer + frameTime
                IN  IF t >= Sec(5)
                    THEN [v EXCEPT !.stateTimer = t, !.state = "LEAVING"]
                    ELSE [v EXCEPT !.stateTimer = t]
          [] v.state = "LEAVING" -> [v EXCEPT !.x = v.x - v.speed]
    IN  LaneSmoothing(w)

AmbulanceUpdate(v, frameTime) ==
    LET w ==
        CASE v.state = "PATROL" -> VehicleUpdate(v, FALSE)
          [] v.state = "TO_ACCIDENT" ->
                LET nx == IF v.dirRight THEN v.x + v.speed ELSE v.x - v.speed
                IN  IF nx <= v.accidentX + Px(160)
                    THEN [v EXCEPT !.x = v.accidentX + Px(160),
                                   !.state = "WAIT_AT_ACCIDENT", !.stateTimer = 0]
                    ELSE [v EXCEPT !.x = nx]
          [] v.state = "WAIT_AT_ACCIDENT" ->
                LET t == v.stateTimer + frameTime
                IN  IF t >= Sec(5)
                    THEN [v EXCEPT !.stateTimer = t, !.state = "TO_HOSPITAL"]
                    ELSE [v EXCEPT !.stateTimer = t]
          [] v.state = "TO_HOSPITAL" ->
                IF v.x > Px(80)
                THEN [v EXCEPT !.x = v.x - v.speed]
                ELSE [v EXCEPT !.state = "WAIT_AT_HOSPITAL", !.stateTimer = 0]
          [] v.state = "WAIT_AT_HOSPITAL" ->
                LET t == v.stateTimer + frameTime
                IN  IF t >= Sec(5)
                    THEN [v EXCEPT !.stateTimer = t, !.state = "LEAVING"]
                    ELSE [v EXCEPT !.stateTimer = t]
          [] v.state = "LEAVING" -> [v EXCEPT !.x = v.x - v.speed]
    IN  LaneSmoothing(w)

\* DepannageUpdate whose work never ends: the timer runs, the pickup never comes.
DepannageUpdate_NoPickup(v, frameTime) ==
    LET w ==
        IF ~v.hasPickedUp
        THEN IF ~v.isWorking
             THEN IF v.x > v.targetX + Px(180)
                  THEN [v EXCEPT !.x = v.x - v.speed]
                  ELSE [v EXCEPT !.isWorking = TRUE, !.workTimer = 0]
             ELSE [v EXCEPT !.workTimer = IF v.workTimer > Sec(2) THEN v.workTimer
                                          ELSE v.workTimer + frameTime]
        ELSE [v EXCEPT !.x = v.x - v.speed]
    IN  LaneSmoothing(w)

\* DepannageUpdate that drives on to the target itself before it starts working.
DepannageUpdate_ToTarget(v, frameTime) ==
    LET w ==
        IF ~v.hasPickedUp
        THEN IF ~v.isWorking
             THEN IF v.x > v.targetX
                  THEN [v EXCEPT !.x = v.x - v.speed]
                  ELSE [v EXCEPT !.isWorking = TRUE, !.workTimer = 0]
             ELSE LET t == v.workTimer + frameTime
                  IN  IF t > Sec(2)
                      THEN [v EXCEPT !.workTimer = t, !.hasPickedUp = TRUE, !.isWorking = FALSE]
                      ELSE [v EXCEPT !.workTimer = t]
        ELSE [v EXCEPT !.x = v.x - v.speed]
    IN  LaneSmoothing(w)

\* DepannageUpdate that turns back to the spawn edge once it has picked up.
DepannageUpdate_TurnsBack(v, frameTime) ==
    LET w ==
        IF ~v.hasPickedUp
        THEN IF ~v.isWorking
             THEN IF v.x > v.targetX + Px(180)
                  THEN [v EXCEPT !.x = v.x - v.speed]
                  ELSE [v EXCEPT !.isWorking = TRUE, !.workTimer = 0]
             ELSE LET t == v.workTimer + frameTime
                  IN  IF t > Sec(2)
                      THEN [v EXCEPT !.workTimer = t, !.hasPickedUp = TRUE, !.isWorking = FALSE]
                      ELSE [v EXCEPT !.workTimer = t]
        ELSE [v EXCEPT !.x = v.x + v.speed]
    IN  LaneSmoothing(w)

DepannageUpdate(v, frameTime) ==
    LET w ==
        IF ~v.hasPickedUp
        THEN IF ~v.isWorking
             THEN IF v.x > v.targetX + Px(180)
                  THEN [v EXCEPT !.x = v.x - v.speed]
                  ELSE [v EXCEPT !.isWorking = TRUE, !.workTimer = 0]
             ELSE LET t == v.workTimer + frameTime
                  IN  IF t > Sec(2)
                      THEN [v EXCEPT !.workTimer = t, !.hasPickedUp = TRUE, !.isWorking = FALSE]
                      ELSE [v EXCEPT !.workTimer = t]
        ELSE [v EXCEPT !.x = v.x - v.speed]
    IN  LaneSmoothing(w)

\* ------------------------------------------------------------ Accident
NoAccident == [active |-> FALSE, pending |-> FALSE, x |-> 0, y |-> 0,
               car1 |-> NULL, car2 |-> NULL]

\* The index in vs of the vehicle a pointer refers to, 0 when there is none.
IndexOf(vs, p) ==
    IF \E i \in 1..Len(vs) : vs[i].id = p
    THEN CHOOSE i \in 1..Len(vs) : vs[i].id = p
    ELSE 0

\* The last vehicle of a kind in collection order: what the loops
\* "for (v : vehiclesBottom) if (v->IsDepannage()) ptr = v" leave in ptr.
LastOfKind(vs, kind) ==
    IF \E i \in 1..Len(vs) : vs[i].kind = kind
    THEN CHOOSE i \in 1..Len(vs) :
            /\ vs[i].kind = kind
            /\ \A j \in (i + 1)..Len(vs) : vs[j].kind # kind
    ELSE 0

\* ------------------------------------------------------------ Simulation
SpawnCarTop(vs, id, lane, speedStep) ==
    Append(vs, NewCar(id, -Px(200), laneYTop(lane), Px(2) + speedStep * (Scale \div 10), TRUE))

SpawnCarBottom(vs, id, lane, speedStep) ==
    Append(vs, NewCar(id, Px(SCREEN_WIDTH) + Px(200), laneYBottom(lane),
                      Px(2) + speedStep * (Scale \div 10), FALSE))

\* A vehicle the accident search may pick (lines 367-369 and 375-377).
Pickable(v) ==
    /\ ~IsAmbulance(v) /\ ~IsDepannage(v) /\ ~IsOffScreen(v)
    /\ ~v.isTowed /\ ~v.isCrashed

\* vs[i] as the rear and vs[j] as the front of a new accident (lines 372-389).
PairQualifies(vs, i, j) ==
    /\ i # j
    /\ Pickable(vs[i]) /\ Pickable(vs[j])
    /\ Abs(vs[i].targetY - vs[j].targetY) < Px(5)
    /\ vs[i].x > vs[j].x
    /\ vs[i].x - vs[j].x < Px(400)
    /\ vs[i].x - vs[j].x > Px(110)
    /\ vs[i].x < Px(SCREEN_WIDTH) - Px(100)
    /\ vs[j].x > Px(100)

\* FirstPair taking the last qualifying pair of the iteration instead.
FirstPair_Last(vs) ==
    LET pairs == {p \in (1..Len(vs)) \X (1..Len(vs)) : PairQualifies(vs, p[1], p[2])}
    IN  IF pairs = {} THEN <<0, 0>>
        ELSE CHOOSE p \in pairs :
                \A q \in pairs : p[1] > q[1] \/ (p[1] = q[1] /\ p[2] >= q[2])

\* The pair the nested loops reach first: the smallest i, and for it the smallest j.
FirstPair(vs) ==
    LET pairs == {p \in (1..Len(vs)) \X (1..Len(vs)) : PairQualifies(vs, p[1], p[2])}
    IN  IF pairs = {} THEN <<0, 0>>
        ELSE CHOOSE p \in pairs :
                \A q \in pairs : p[1] < q[1] \/ (p[1] = q[1] /\ p[2] <= q[2])

\* TriggerRandomAccident without the early return on an outstanding accident.
TriggerRandomAccident_Again(vs, acc) ==
    LET p == FirstPair(vs)
    IN  IF p = <<0, 0>> THEN [vb |-> vs, acc |-> acc]
        ELSE LET i == p[1]
                 j == p[2]
             IN  [vb |-> [vs EXCEPT
                            ![i] = [@ EXCEPT !.isReckless = TRUE, !.laneLock = TRUE,
                                             !.speed = (@ * 28) \div 10],
                            ![j] = [@ EXCEPT !.isAccidentTarget = TRUE, !.laneLock = TRUE,
                                             !.speed = (@ * 4) \div 10]],
                  acc |-> [acc EXCEPT !.pending = TRUE,
                                      !.car1 = vs[j].id, !.car2 = vs[i].id]]

\* TriggerRandomAccident with the two speed factors exchanged.
TriggerRandomAccident_Swapped(vs, acc) ==
    IF acc.active \/ acc.pending THEN [vb |-> vs, acc |-> acc]
    ELSE LET p == FirstPair(vs)
         IN  IF p = <<0, 0>> THEN [vb |-> vs, acc |-> acc]
             ELSE LET i == p[1]
                      j == p[2]
                  IN  [vb |-> [vs EXCEPT
                                 ![i] = [@ EXCEPT !.isReckless = TRUE, !.laneLock = TRUE,
                                                  !.speed = (@ * 4) \div 10],
                                 ![j] = [@ EXCEPT !.isAccidentTarget = TRUE, !.laneLock = TRUE,
                                                  !.speed = (@ * 28) \div 10]],
                       acc |-> [acc EXCEPT !.pending = TRUE,
                                           !.car1 = vs[j].id, !.car2 = vs[i].id]]

TriggerRandomAccident(vs, acc) ==
    IF acc.active \/ acc.pending THEN [vb |-> vs, acc |-> acc]
    ELSE LET p == FirstPair(vs)
         IN  IF p = <<0, 0>> THEN [vb |-> vs, acc |-> acc]
             ELSE LET i == p[1]
                      j == p[2]
                  IN  [vb |-> [vs EXCEPT
                                 ![i] = [@ EXCEPT !.isReckless = TRUE, !.laneLock = TRUE,
                                                  !.speed = (@ * 28) \div 10],
                                 ![j] = [@ EXCEPT !.isAccidentTarget = TRUE, !.laneLock = TRUE,
                                                  !.speed = (@ * 4) \div 10]],
                       acc |-> [acc EXCEPT !.pending = TRUE,
                                           !.car1 = vs[j].id, !.car2 = vs[i].id]]

\* CallAmbulance that never assigns the accident to the new ambulance.
CallAmbulance_Unassigned(vs, acc, id) ==
    LET t == IF ~acc.active /\ ~acc.pending
             THEN TriggerRandomAccident(vs, acc)
             ELSE [vb |-> vs, acc |-> acc]
        amb == NewAmbulance(id, Px(SCREEN_WIDTH) + Px(200), laneYBottom(1), (Px(9)) \div 2)
    IN  [vb |-> Append(t.vb, amb), acc |-> t.acc]

CallAmbulance(vs, acc, id) ==
    LET t == IF ~acc.active /\ ~acc.pending
             THEN TriggerRandomAccident(vs, acc)
             ELSE [vb |-> vs, acc |-> acc]
        amb == NewAmbulance(id, Px(SCREEN_WIDTH) + Px(200), laneYBottom(1), (Px(9)) \div 2)
        sent == IF t.acc.active
                THEN [AssignAccident(amb, t.acc.x, t.acc.y) EXCEPT !.targetY = t.acc.y]
                ELSE amb
    IN  [vb |-> Append(t.vb, sent), acc |-> t.acc]

\* CallDepannage without the early return when no accident is active.
CallDepannage_Always(vs, acc, id) ==
    LET tow == NewDepannage(id, Px(SCREEN_WIDTH) + Px(200), acc.y, (Px(7)) \div 2)
    IN  [vb |-> Append(vs, [tow EXCEPT !.targetX = acc.x]), acc |-> acc]

CallDepannage(vs, acc, id) ==
    IF ~acc.active THEN [vb |-> vs, acc |-> acc]
    ELSE LET tow == NewDepannage(id, Px(SCREEN_WIDTH) + Px(200), acc.y, (Px(7)) \div 2)
         IN  [vb |-> Append(vs, [tow EXCEPT !.targetX = acc.x]), acc |-> acc]

\* OrphanCleanup that misses the tow truck past the off-screen threshold.
OrphanCleanup_AbsentOnly(vs) ==
    LET t == LastOfKind(vs, "depannage")
        towTruckGone == t = 0
    IN  IF towTruckGone
        THEN [i \in 1..Len(vs) |->
                IF vs[i].isTowed THEN [vs[i] EXCEPT !.toBeRemoved = TRUE] ELSE vs[i]]
        ELSE vs

\* --- Update, step 1: cleanup of orphaned towed cars (lines 447-460)
OrphanCleanup(vs) ==
    LET t == LastOfKind(vs, "depannage")
        towTruckGone == t = 0 \/ vs[t].x < -Px(600)
    IN  IF towTruckGone
        THEN [i \in 1..Len(vs) |->
                IF vs[i].isTowed THEN [vs[i] EXCEPT !.toBeRemoved = TRUE] ELSE vs[i]]
        ELSE vs

\* --- Update: removal of off-screen vehicles
PruneTop(vs) == SelectSeq(vs, LAMBDA v : ~IsOffScreen(v))

\* The predicate without the nulling of car1 and car2.
PrunePredicate_KeepsRefs(v, acc) ==
    IF IsDepannage(v)
    THEN [remove |-> v.x < -Px(600), acc |-> acc]
    ELSE IF v.isReckless \/ v.isAccidentTarget \/ v.isCrashed \/ v.isTowed
    THEN IF v.x > -Px(600) /\ ~v.toBeRemoved
         THEN [remove |-> FALSE, acc |-> acc]
         ELSE [remove |-> TRUE,
               acc |-> IF v.isAccidentTarget \/ v.isReckless \/ v.isCrashed
                       THEN [acc EXCEPT !.pending = FALSE, !.active = FALSE]
                       ELSE acc]
    ELSE IF IsOffScreen(v) \/ v.toBeRemoved
    THEN [remove |-> TRUE,
          acc |-> IF v.id = acc.car1 \/ v.id = acc.car2
                  THEN [acc EXCEPT !.pending = FALSE, !.active = FALSE]
                  ELSE acc]
    ELSE [remove |-> FALSE, acc |-> acc]

\* The predicate of the bottom road's remove_if (lines 489-525), with what it
\* does to currentAccident: whether v goes, and the accident afterwards.
PrunePredicate(v, acc) ==
    IF IsDepannage(v)
    THEN [remove |-> v.x < -Px(600), acc |-> acc]
    ELSE IF v.isReckless \/ v.isAccidentTarget \/ v.isCrashed \/ v.isTowed
    THEN IF v.x > -Px(600) /\ ~v.toBeRemoved
         THEN [remove |-> FALSE, acc |-> acc]
         ELSE LET a1 == IF v.id = acc.car1 THEN [acc EXCEPT !.car1 = NULL] ELSE acc
                  a2 == IF v.id = a1.car2 THEN [a1 EXCEPT !.car2 = NULL] ELSE a1
                  a3 == IF v.isAccidentTarget \/ v.isReckless \/ v.isCrashed
                        THEN [a2 EXCEPT !.pending = FALSE, !.active = FALSE]
                        ELSE a2
              IN  [remove |-> TRUE, acc |-> a3]
    ELSE IF IsOffScreen(v) \/ v.toBeRemoved
    THEN [remove |-> TRUE,
          acc |-> IF v.id = acc.car1 \/ v.id = acc.car2
                  THEN [acc EXCEPT !.car1 = NULL, !.car2 = NULL,
                                   !.pending = FALSE, !.active = FALSE]
                  ELSE acc]
    ELSE [remove |-> FALSE, acc |-> acc]

\* remove_if calls the predicate once on each element, in order.
RECURSIVE PruneFrom(_, _, _, _)
PruneFrom(vs, acc, i, kept) ==
    IF i > Len(vs) THEN [vb |-> kept, acc |-> acc]
    ELSE LET r == PrunePredicate(vs[i], acc)
         IN  PruneFrom(vs, r.acc, i + 1, IF r.remove THEN kept ELSE Append(kept, vs[i]))

PruneBottom(vs, acc) == PruneFrom(vs, acc, 1, <<>>)

\* The collision taken as soon as the rear car is within VEHICLE_WIDTH of the front.
PendingAccidentLogic_Touching(vs, acc) ==
    IF ~acc.pending THEN [vb |-> vs, acc |-> acc, bad |-> FALSE]
    ELSE IF acc.car1 # NULL /\ acc.car2 # NULL
    THEN LET f == IndexOf(vs, acc.car1)
             r == IndexOf(vs, acc.car2)
         IN  IF f = 0 \/ r = 0 THEN [vb |-> vs, acc |-> acc, bad |-> TRUE]
             ELSE LET dist == vs[r].x - vs[f].x
                  IN  IF dist < Px(VEHICLE_WIDTH) /\ dist > -Px(VEHICLE_WIDTH)
                      THEN LET ax == vs[f].x + Px(VEHICLE_WIDTH) \div 2
                               ay == vs[f].y
                               crashed == [vs EXCEPT
                                   ![f] = [@ EXCEPT !.isCrashed = TRUE, !.moving = FALSE],
                                   ![r] = [@ EXCEPT !.isCrashed = TRUE, !.isReckless = FALSE,
                                                    !.moving = FALSE]]
                           IN  [vb |-> [i \in 1..Len(vs) |->
                                          IF IsAmbulance(crashed[i])
                                          THEN [AssignAccident(crashed[i], ax, ay)
                                                   EXCEPT !.targetY = ay]
                                          ELSE crashed[i]],
                                acc |-> [acc EXCEPT !.pending = FALSE, !.active = TRUE,
                                                    !.x = ax, !.y = ay],
                                bad |-> FALSE]
                      ELSE [vb |-> vs, acc |-> acc, bad |-> FALSE]
    ELSE [vb |-> vs, acc |-> [acc EXCEPT !.pending = FALSE, !.active = FALSE], bad |-> FALSE]

\* The collision point put at the far end of the front car, not its middle.
PendingAccidentLogic_AtRearBumper(vs, acc) ==
    IF ~acc.pending THEN [vb |-> vs, acc |-> acc, bad |-> FALSE]
    ELSE IF acc.car1 # NULL /\ acc.car2 # NULL
    THEN LET f == IndexOf(vs, acc.car1)
             r == IndexOf(vs, acc.car2)
         IN  IF f = 0 \/ r = 0 THEN [vb |-> vs, acc |-> acc, bad |-> TRUE]
             ELSE LET dist == vs[r].x - vs[f].x
                  IN  IF dist < Px(VEHICLE_WIDTH) - Px(10) /\ dist > -Px(VEHICLE_WIDTH)
                      THEN LET ax == vs[f].x + Px(VEHICLE_WIDTH)
                               ay == vs[f].y
                               crashed == [vs EXCEPT
                                   ![f] = [@ EXCEPT !.isCrashed = TRUE, !.moving = FALSE],
                                   ![r] = [@ EXCEPT !.isCrashed = TRUE, !.isReckless = FALSE,
                                                    !.moving = FALSE]]
                           IN  [vb |-> [i \in 1..Len(vs) |->
                                          IF IsAmbulance(crashed[i])
                                          THEN [AssignAccident(crashed[i], ax, ay)
                                                   EXCEPT !.targetY = ay]
                                          ELSE crashed[i]],
                                acc |-> [acc EXCEPT !.pending = FALSE, !.active = TRUE,
                                                    !.x = ax, !.y = ay],
                                bad |-> FALSE]
                      ELSE [vb |-> vs, acc |-> acc, bad |-> FALSE]
    ELSE [vb |-> vs, acc |-> [acc EXCEPT !.pending = FALSE, !.active = FALSE], bad |-> FALSE]

\* The collision that stops and marks the front car only.
PendingAccidentLogic_RearRollsOn(vs, acc) ==
    IF ~acc.pending THEN [vb |-> vs, acc |-> acc, bad |-> FALSE]
    ELSE IF acc.car1 # NULL /\ acc.car2 # NULL
    THEN LET f == IndexOf(vs, acc.car1)
             r == IndexOf(vs, acc.car2)
         IN  IF f = 0 \/ r = 0 THEN [vb |-> vs, acc |-> acc, bad |-> TRUE]
             ELSE LET dist == vs[r].x - vs[f].x
                  IN  IF dist < Px(VEHICLE_WIDTH) - Px(10) /\ dist > -Px(VEHICLE_WIDTH)
                      THEN LET ax == vs[f].x + Px(VEHICLE_WIDTH) \div 2
                               ay == vs[f].y
                               crashed == [vs EXCEPT
                                   ![f] = [@ EXCEPT !.isCrashed = TRUE, !.moving = FALSE],
                                   ![r] = [@ EXCEPT !.isReckless = FALSE]]
                           IN  [vb |-> [i \in 1..Len(vs) |->
                                          IF IsAmbulance(crashed[i])
                                          THEN [AssignAccident(crashed[i], ax, ay)
                                                   EXCEPT !.targetY = ay]
                                          ELSE crashed[i]],
                                acc |-> [acc EXCEPT !.pending = FALSE, !.active = TRUE,
                                                    !.x = ax, !.y = ay],
                                bad |-> FALSE]
                      ELSE [vb |-> vs, acc |-> acc, bad |-> FALSE]
    ELSE [vb |-> vs, acc |-> [acc EXCEPT !.pending = FALSE, !.active = FALSE], bad |-> FALSE]

\* The collision that leaves the rear car its reckless flag.
PendingAccidentLogic_StaysReckless(vs, acc) ==
    IF ~acc.pending THEN [vb |-> vs, acc |-> acc, bad |-> FALSE]
    ELSE IF acc.car1 # NULL /\ acc.car2 # NULL
    THEN LET f == IndexOf(vs, acc.car1)
             r == IndexOf(vs, acc.car2)
         IN  IF f = 0 \/ r = 0 THEN [vb |-> vs, acc |-> acc, bad |-> TRUE]
             ELSE LET dist == vs[r].x - vs[f].x
                  IN  IF dist < Px(VEHICLE_WIDTH) - Px(10) /\ dist > -Px(VEHICLE_WIDTH)
                      THEN LET ax == vs[f].x + Px(VEHICLE_WIDTH) \div 2
                               ay == vs[f].y
                               crashed == [vs EXCEPT
                                   ![f] = [@ EXCEPT !.isCrashed = TRUE, !.moving = FALSE],
                                   ![r] = [@ EXCEPT !.isCrashed = TRUE, !.moving = FALSE]]
                           IN  [vb |-> [i \in 1..Len(vs) |->
                                          IF IsAmbulance(crashed[i])
                                          THEN [AssignAccident(crashed[i], ax, ay)
                                                   EXCEPT !.targetY = ay]
                                          ELSE crashed[i]],
                                acc |-> [acc EXCEPT !.pending = FALSE, !.active = TRUE,
                                                    !.x = ax, !.y = ay],
                                bad |-> FALSE]
                      ELSE [vb |-> vs, acc |-> acc, bad |-> FALSE]
    ELSE [vb |-> vs, acc |-> [acc EXCEPT !.pending = FALSE, !.active = FALSE], bad |-> FALSE]

\* --- Update: pending accident logic, the collision (lines 529-566).
\* bad: the step read through a pointer to a vehicle that is gone.
PendingAccidentLogic(vs, acc) ==
    IF ~acc.pending THEN [vb |-> vs, acc |-> acc, bad |-> FALSE]
    ELSE IF acc.car1 # NULL /\ acc.car2 # NULL
    THEN LET f == IndexOf(vs, acc.car1)
             r == IndexOf(vs, acc.car2)
         IN  IF f = 0 \/ r = 0 THEN [vb |-> vs, acc |-> acc, bad |-> TRUE]
             ELSE LET dist == vs[r].x - vs[f].x
                  IN  IF dist < Px(VEHICLE_WIDTH) - Px(10) /\ dist > -Px(VEHICLE_WIDTH)
                      THEN LET ax == vs[f].x + Px(VEHICLE_WIDTH) \div 2
                               ay == vs[f].y
                               crashed == [vs EXCEPT
                                   ![f] = [@ EXCEPT !.isCrashed = TRUE, !.moving = FALSE],
                                   ![r] = [@ EXCEPT !.isCrashed = TRUE, !.isReckless = FALSE,
                                                    !.moving = FALSE]]
                           IN  [vb |-> [i \in 1..Len(vs) |->
                                          IF IsAmbulance(crashed[i])
                                          THEN [AssignAccident(crashed[i], ax, ay)
                                                   EXCEPT !.targetY = ay]
                                          ELSE crashed[i]],
                                acc |-> [acc EXCEPT !.pending = FALSE, !.active = TRUE,
                                                    !.x = ax, !.y = ay],
                                bad |-> FALSE]
                      ELSE [vb |-> vs, acc |-> acc, bad |-> FALSE]
    ELSE [vb |-> vs, acc |-> [acc EXCEPT !.pending = FALSE, !.active = FALSE], bad |-> FALSE]

\* The tow truck logic that attaches the front car and leaves the rear one.
TowTruckLogic_FrontOnly(vs, acc) ==
    LET t == LastOfKind(vs, "depannage")
    IN  IF t # 0 /\ vs[t].hasPickedUp /\ acc.active
        THEN LET f == IndexOf(vs, acc.car1)
                 r == IndexOf(vs, acc.car2)
                 v1 == IF acc.car1 # NULL /\ f # 0
                       THEN [vs EXCEPT ![f] = [@ EXCEPT !.isTowed = TRUE, !.isCrashed = FALSE,
                                                        !.isAccidentTarget = FALSE,
                                                        !.towOffsetX = Px(100),
                                                        !.y = vs[t].y]]
                       ELSE vs
                 v2 == IF FALSE
                       THEN [v1 EXCEPT ![r] = [@ EXCEPT !.isTowed = TRUE, !.isCrashed = FALSE,
                                                        !.towOffsetX = Px(200),
                                                        !.y = vs[t].y]]
                       ELSE v1
             IN  [vb |-> v2, acc |-> [acc EXCEPT !.active = FALSE],
                  bad |-> \/ (acc.car1 # NULL /\ f = 0)
                          \/ (acc.car2 # NULL /\ r = 0)]
        ELSE [vb |-> vs, acc |-> acc, bad |-> FALSE]

\* --- Update: tow truck logic, attaching the cars (lines 579-597)
TowTruckLogic(vs, acc) ==
    LET t == LastOfKind(vs, "depannage")
    IN  IF t # 0 /\ vs[t].hasPickedUp /\ acc.active
        THEN LET f == IndexOf(vs, acc.car1)
                 r == IndexOf(vs, acc.car2)
                 v1 == IF acc.car1 # NULL /\ f # 0
                       THEN [vs EXCEPT ![f] = [@ EXCEPT !.isTowed = TRUE, !.isCrashed = FALSE,
                                                        !.isAccidentTarget = FALSE,
                                                        !.towOffsetX = Px(100),
                                                        !.y = vs[t].y]]
                       ELSE vs
                 v2 == IF acc.car2 # NULL /\ r # 0
                       THEN [v1 EXCEPT ![r] = [@ EXCEPT !.isTowed = TRUE, !.isCrashed = FALSE,
                                                        !.towOffsetX = Px(200),
                                                        !.y = vs[t].y]]
                       ELSE v1
             IN  [vb |-> v2, acc |-> [acc EXCEPT !.active = FALSE],
                  bad |-> \/ (acc.car1 # NULL /\ f = 0)
                          \/ (acc.car2 # NULL /\ r = 0)]
        ELSE [vb |-> vs, acc |-> acc, bad |-> FALSE]

\* The towed cars put behind the first tow truck of the collection.
UpdateTowedPositions_FirstTruck(vs) ==
    LET t == IF LastOfKind(vs, "depannage") = 0 THEN 0
             ELSE CHOOSE i \in 1..Len(vs) :
                     /\ IsDepannage(vs[i])
                     /\ \A j \in 1..(i - 1) : ~IsDepannage(vs[j])
    IN  [i \in 1..Len(vs) |->
            IF vs[i].isTowed /\ t # 0
            THEN [vs[i] EXCEPT !.x = vs[t].x + vs[i].towOffsetX, !.y = vs[t].y]
            ELSE vs[i]]

\* --- Update: towed cars follow the tow truck (lines 600-605)
UpdateTowedPositions(vs) ==
    LET t == LastOfKind(vs, "depannage")
    IN  [i \in 1..Len(vs) |->
            IF vs[i].isTowed /\ t # 0
            THEN [vs[i] EXCEPT !.x = vs[t].x + vs[i].towOffsetX, !.y = vs[t].y]
            ELSE vs[i]]

\* --- Update: ambulance lane logic (lines 609-616)
AmbulanceLaneLogic(vs, acc) ==
    LET a == LastOfKind(vs, "ambulance")
    IN  IF a = 0 THEN vs
        ELSE IF vs[a].state = "TO_HOSPITAL"
        THEN [vs EXCEPT ![a].targetY = laneYBottom(2)]
        ELSE IF vs[a].state = "TO_ACCIDENT" /\ acc.active
        THEN [vs EXCEPT ![a].targetY = acc.y]
        ELSE vs

\* --- Update: general traffic loop of the bottom road (lines 619-698)
\* The lane a dodging car moves to: the one after the lane its y is in.
Dodge(v) ==
    LET idx1 == IF Abs(v.y - laneYBottom(1)) < Px(5) THEN 1 ELSE 0
        currentLaneIdx == IF Abs(v.y - laneYBottom(2)) < Px(5) THEN 2 ELSE idx1
        targetLane == (currentLaneIdx + 1) % 3
    IN  [v EXCEPT !.targetY = laneYBottom(targetLane), !.changedLane = TRUE]

\* tryYield (lines 627-645); e = 0 is a null emergency vehicle.
TryYield(vs, v, e) ==
    IF /\ e # 0
       /\ vs[e].moving
       /\ Abs(v.targetY - vs[e].targetY) < Px(5)
       /\ vs[e].x - v.x > 0
       /\ vs[e].x - v.x < Px(350)
    THEN Dodge(v)
    ELSE v

YieldLogic(vs, v, amb, tow) ==
    IF ~v.isReckless /\ ~v.laneLock /\ ~v.changedLane
    THEN TryYield(vs, TryYield(vs, v, amb), tow)
    ELSE v

\* Accident avoidance (lines 656-667)
AccidentAvoidance(v, acc) ==
    IF /\ acc.active /\ ~v.changedLane /\ ~v.laneLock
       /\ Abs(v.y - acc.y) < Px(5) /\ v.x > acc.x
       /\ v.x - acc.x < Px(300)
    THEN Dodge(v)
    ELSE v

\* The spacing check with half the safe distance.
TooCloseBottom_Half(vs, i, v) ==
    \E j \in 1..Len(vs) :
        /\ i # j
        /\ ~vs[j].isTowed
        /\ Abs(v.targetY - vs[j].targetY) < Px(5)
        /\ vs[j].x < v.x
        /\ v.x - (vs[j].x + Px(VEHICLE_WIDTH)) < Px(SAFE_DISTANCE) \div 2

\* Car collision (lines 675-689): a vehicle of the same lane ahead, too close.
TooCloseBottom(vs, i, v) ==
    \E j \in 1..Len(vs) :
        /\ i # j
        /\ ~vs[j].isTowed
        /\ Abs(v.targetY - vs[j].targetY) < Px(5)
        /\ vs[j].x < v.x
        /\ v.x - (vs[j].x + Px(VEHICLE_WIDTH)) < Px(SAFE_DISTANCE)

\* The loop with the reckless driver put through the light and spacing checks
\* and held where it is when they say stop.
TrafficStepBottom_RecklessChecked(vs, i, acc, light, amb, tow, frameTime) ==
    LET v == vs[i]
    IN  IF v.isCrashed \/ v.isTowed THEN v
        ELSE IF IsAmbulance(v) THEN AmbulanceUpdate(v, frameTime)
        ELSE IF IsDepannage(v) THEN DepannageUpdate(v, frameTime)
        ELSE LET y == YieldLogic(vs, v, amb, tow)
                 a == IF ~y.isReckless THEN AccidentAvoidance(y, acc) ELSE y
                 red == light.red /\ Abs(a.x - GetStopLineX(light, TRUE)) < Px(50)
                 stop == red \/ TooCloseBottom(vs, i, a)
             IN  IF stop THEN LaneSmoothing([a EXCEPT !.forcedStop = TRUE])
                 ELSE VehicleUpdate([a EXCEPT !.forcedStop = FALSE], FALSE)

\* One iteration of the loop, for vs[i]; the vehicle afterwards.
TrafficStepBottom(vs, i, acc, light, amb, tow, frameTime) ==
    LET v == vs[i]
    IN  IF v.isCrashed \/ v.isTowed THEN v
        ELSE IF IsAmbulance(v) THEN AmbulanceUpdate(v, frameTime)
        ELSE IF IsDepannage(v) THEN DepannageUpdate(v, frameTime)
        ELSE LET y == YieldLogic(vs, v, amb, tow)
                 a == IF ~y.isReckless THEN AccidentAvoidance(y, acc) ELSE y
                 red == light.red /\ Abs(a.x - GetStopLineX(light, TRUE)) < Px(50)
                 stop == /\ ~a.isReckless
                         /\ (red \/ TooCloseBottom(vs, i, a))
             IN  VehicleUpdate([a EXCEPT !.forcedStop = stop], stop)

RECURSIVE TrafficFromBottom(_, _, _, _, _, _, _)
TrafficFromBottom(vs, i, acc, light, amb, tow, frameTime) ==
    IF i > Len(vs) THEN vs
    ELSE TrafficFromBottom(
            [vs EXCEPT ![i] = TrafficStepBottom(vs, i, acc, light, amb, tow, frameTime)],
            i + 1, acc, light, amb, tow, frameTime)

TrafficBottom(vs, acc, light, frameTime) ==
    TrafficFromBottom(vs, 1, acc, light, LastOfKind(vs, "ambulance"),
                      LastOfKind(vs, "depannage"), frameTime)

\* The spacing check that counts a car close behind as well as one close ahead.
TooCloseTop_EitherSide(vs, i, v) ==
    \E j \in 1..Len(vs) :
        /\ i # j
        /\ vs[j].targetY = v.targetY
        /\ Abs(vs[j].x - v.x) - Px(VEHICLE_WIDTH) < Px(SAFE_DISTANCE)

\* --- Update: top road (lines 701-715)
TooCloseTop(vs, i, v) ==
    \E j \in 1..Len(vs) :
        /\ i # j
        /\ vs[j].targetY = v.targetY
        /\ vs[j].x > v.x
        /\ vs[j].x - Px(VEHICLE_WIDTH) - v.x < Px(SAFE_DISTANCE)

\* The top road's pass with the red light holding only the cars short of the line.
TrafficStepTop_ShortOfLine(vs, i, light) ==
    LET v == vs[i]
        red == /\ light.red
               /\ v.x <= GetStopLineX(light, FALSE)
               /\ Abs(v.x - GetStopLineX(light, FALSE)) < Px(50)
        stop == red \/ TooCloseTop(vs, i, v)
    IN  VehicleUpdate([v EXCEPT !.forcedStop = stop], stop)

TrafficStepTop(vs, i, light) ==
    LET v == vs[i]
        red == light.red /\ Abs(v.x - GetStopLineX(light, FALSE)) < Px(50)
        stop == red \/ TooCloseTop(vs, i, v)
    IN  VehicleUpdate([v EXCEPT !.forcedStop = stop], stop)

RECURSIVE TrafficFromTop(_, _, _)
TrafficFromTop(vs, i, light) ==
    IF i > Len(vs) THEN vs
    ELSE TrafficFromTop([vs EXCEPT ![i] = TrafficStepTop(vs, i, light)], i + 1, light)

TrafficTop(vs, light) == TrafficFromTop(vs, 1, light)

\* ------------------------------------------------------------ state
VARIABLES
    vehiclesTop, vehiclesBottom,        \* the two collections, in vector order
    lightTop, lightBottom,
    carSpawnTimerTop, carSpawnTimerBottom,
    currentAccident,
    ambulanceActive, screenAlertTimer, screenAlertOn,
    nextId,                             \* the next address the allocator hands out
    danglingRead,                       \* a removed vehicle was read through the accident
    keysPolled,                         \* main loop: keys polled since the last Update
    spawned,                            \* vehicles created so far, by kind
    run,                                \* the run's bounds: caps on spawned, input sets
    clock,                              \* frames since the last input frame
    lastDelta,                          \* the delta of the last Update
    sinceFlip                           \* the deltas fed to lightTop since it last flipped

vars == <<vehiclesTop, vehiclesBottom, lightTop, lightBottom, carSpawnTimerTop,
          carSpawnTimerBottom, currentAccident, ambulanceActive, screenAlertTimer,
          screenAlertOn, nextId, danglingRead, keysPolled, spawned, run, clock,
          lastDelta, sinceFlip>>

\* The Simulation object as one value.
Sim == [vehiclesTop |-> vehiclesTop, vehiclesBottom |-> vehiclesBottom,
        lightTop |-> lightTop, lightBottom |-> lightBottom,
        carSpawnTimerTop |-> carSpawnTimerTop, carSpawnTimerBottom |-> carSpawnTimerBottom,
        currentAccident |-> currentAccident, ambulanceActive |-> ambulanceActive,
        screenAlertTimer |-> screenAlertTimer, screenAlertOn |-> screenAlertOn,
        nextId |-> nextId, danglingRead |-> danglingRead, spawned |-> spawned]

\* Simulation::Update(delta) (lines 441-727).  in: the frame's random draws
\* (rTop, rBottom: GetRandomValue(20, 35); rAcc: GetRandomValue(0, 1000); the lane
\* and speed step of a spawn); capTop, capBottom: whether a road still spawns.
Update(s, delta, in, capTop, capBottom) ==
    LET vb1 == OrphanCleanup(s.vehiclesBottom)
        tTop == s.carSpawnTimerTop + delta
        spTop == capTop /\ tTop * 10 >= in.rTop * TimeScale
        vt1 == IF spTop THEN SpawnCarTop(s.vehiclesTop, s.nextId, in.laneTop, in.stepTop)
               ELSE s.vehiclesTop
        id1 == IF spTop THEN s.nextId + 1 ELSE s.nextId
        tBot == s.carSpawnTimerBottom + delta
        spBot == capBottom /\ tBot * 10 >= in.rBottom * TimeScale
        vb2 == IF spBot THEN SpawnCarBottom(vb1, id1, in.laneBottom, in.stepBottom) ELSE vb1
        id2 == IF spBot THEN id1 + 1 ELSE id1
        trig == IF in.rAcc < 2 THEN TriggerRandomAccident(vb2, s.currentAccident)
                ELSE [vb |-> vb2, acc |-> s.currentAccident]
        lt == LightUpdate(s.lightTop, delta)
        lb == LightUpdate(s.lightBottom, delta)
        vt2 == PruneTop(vt1)
        pruned == PruneBottom(trig.vb, trig.acc)
        hit == PendingAccidentLogic(pruned.vb, pruned.acc)
        towed == TowTruckLogic(hit.vb, hit.acc)
        vb3 == AmbulanceLaneLogic(UpdateTowedPositions(towed.vb), towed.acc)
        hasAmb == LastOfKind(vb3, "ambulance") # 0
        vb4 == TrafficBottom(vb3, towed.acc, lb, delta)
        vt3 == TrafficTop(vt2, lt)
        at == s.screenAlertTimer + delta
        flip == hasAmb /\ at * 2 >= TimeScale
    IN  [vehiclesTop |-> vt3, vehiclesBottom |-> vb4,
         lightTop |-> lt, lightBottom |-> lb,
         carSpawnTimerTop |-> IF spTop THEN 0 ELSE IF capTop THEN tTop
                              ELSE s.carSpawnTimerTop,
         carSpawnTimerBottom |-> IF spBot THEN 0 ELSE IF capBottom THEN tBot
                                 ELSE s.carSpawnTimerBottom,
         currentAccident |-> towed.acc,
         ambulanceActive |-> hasAmb,
         screenAlertTimer |-> IF ~hasAmb THEN s.screenAlertTimer
                              ELSE IF flip THEN 0 ELSE at,
         screenAlertOn |-> IF ~hasAmb THEN FALSE
                           ELSE IF flip THEN ~s.screenAlertOn ELSE s.screenAlertOn,
         nextId |-> id2,
         danglingRead |-> s.danglingRead \/ hit.bad \/ towed.bad,
         spawned |-> [s.spawned EXCEPT !.top = IF spTop THEN @ + 1 ELSE @,
                                       !.bottom = IF spBot THEN @ + 1 ELSE @]]

SetSim(r) ==
    /\ vehiclesTop' = r.vehiclesTop
    /\ vehiclesBottom' = r.vehiclesBottom
    /\ lightTop' = r.lightTop
    /\ lightBottom' = r.lightBottom
    /\ carSpawnTimerTop' = r.carSpawnTimerTop
    /\ carSpawnTimerBottom' = r.carSpawnTimerBottom
    /\ currentAccident' = r.currentAccident
    /\ ambulanceActive' = r.ambulanceActive
    /\ screenAlertTimer' = r.screenAlertTimer
    /\ screenAlertOn' = r.screenAlertOn
    /\ nextId' = r.nextId
    /\ danglingRead' = r.danglingRead
    /\ spawned' = r.spawned

\* ------------------------------------------------------------ inputs
Deltas == {DeltaMs}
\* GetRandomValue(0, 1000) < 2 or not; the accident is drawn on input frames only.
AccidentDraws == IF clock = run.keyPeriod - 1 THEN {0, 1000} ELSE {1000}

\* ------------------------------------------------------------ main loop
\* The state after the constructor and Init(), for a run bounded by r.
InitSim(r) ==
    /\ vehiclesTop = <<>>
    /\ vehiclesBottom = <<>>
    /\ lightTop = NewLight(Px(SCREEN_WIDTH) \div 2 - Px(80), Px(ROAD_Y_TOP) - Px(80), Sec(5))
    /\ lightBottom = NewLight(Px(SCREEN_WIDTH) \div 2 - Px(150),
                              Px(ROAD_Y_BOTTOM) + Px(ROAD_HEIGHT) + Px(20), Sec(5))
    /\ carSpawnTimerTop = 0
    /\ carSpawnTimerBottom = 0
    /\ currentAccident = NoAccident
    /\ ambulanceActive = FALSE
    /\ screenAlertTimer = 0
    /\ screenAlertOn = FALSE
    /\ nextId = 1
    /\ danglingRead = FALSE
    /\ keysPolled = 3
    /\ spawned = [top |-> 0, bottom |-> 0, ambulance |-> 0, tow |-> 0]
    /\ run = r
    /\ clock = 0
    /\ lastDelta = 0
    /\ sinceFlip = 0

\* Bottom road only: cars of lane 1 (the ambulance's lane), the slowest and the
\* fastest, spawned as soon as the timer allows (draw 20 of GetRandomValue(20, 35)).
Init ==
    InitSim([top |-> 0, bottom |-> MaxCarsBottom, ambulance |-> MaxAmbulances,
             tow |-> MaxTows, thresholds |-> {20}, lanes |-> {1}, steps |-> {0, 5},
             keyPeriod |-> KeyPeriod])

\* One iteration of the loop of main up to the drawing: sim.Update(GetFrameTime()).
Frame ==
    \E delta \in Deltas, rTop \in run.thresholds, rBottom \in run.thresholds,
       rAcc \in AccidentDraws :
      LET capTop == spawned.top < run.top
          capBottom == spawned.bottom < run.bottom
          spTop == capTop /\ (carSpawnTimerTop + delta) * 10 >= rTop * TimeScale
          spBot == capBottom /\ (carSpawnTimerBottom + delta) * 10 >= rBottom * TimeScale
      IN  \E laneTop \in IF spTop THEN run.lanes ELSE {0},
             stepTop \in IF spTop THEN run.steps ELSE {0},
             laneBottom \in IF spBot THEN run.lanes ELSE {0},
             stepBottom \in IF spBot THEN run.steps ELSE {0} :
            /\ SetSim(Update(Sim, delta,
                             [rTop |-> rTop, laneTop |-> laneTop, stepTop |-> stepTop,
                              rBottom |-> rBottom, laneBottom |-> laneBottom,
                              stepBottom |-> stepBottom, rAcc |-> rAcc],
                             capTop, capBottom))
            /\ lastDelta' = delta
            /\ sinceFlip' = IF lightTop'.red # lightTop.red THEN 0 ELSE sinceFlip + delta
            /\ keysPolled' = 0
            /\ clock' = (clock + 1) % run.keyPeriod
            /\ UNCHANGED run

\* The keys are polled in the order E, D, A after the frame is drawn
\* (lines 772-774); a key not pressed is skipped.
KeyE ==
    /\ clock = 0 /\ keysPolled = 0
    /\ spawned.ambulance < run.ambulance
    /\ LET r == CallAmbulance(vehiclesBottom, currentAccident, nextId)
       IN  /\ vehiclesBottom' = r.vb
           /\ currentAccident' = r.acc
    /\ ambulanceActive' = TRUE
    /\ nextId' = nextId + 1
    /\ spawned' = [spawned EXCEPT !.ambulance = @ + 1]
    /\ keysPolled' = 1
    /\ UNCHANGED <<vehiclesTop, lightTop, lightBottom, carSpawnTimerTop,
                   carSpawnTimerBottom, screenAlertTimer, screenAlertOn,
                   danglingRead, run, clock, lastDelta, sinceFlip>>

KeyD ==
    /\ clock = 0 /\ keysPolled < 2
    /\ spawned.tow < run.tow
    /\ LET r == CallDepannage(vehiclesBottom, currentAccident, nextId)
       IN  /\ vehiclesBottom' = r.vb
           /\ currentAccident' = r.acc
           /\ nextId' = IF Len(r.vb) > Len(vehiclesBottom) THEN nextId + 1 ELSE nextId
           /\ spawned' = IF Len(r.vb) > Len(vehiclesBottom)
                         THEN [spawned EXCEPT !.tow = @ + 1] ELSE spawned
    /\ keysPolled' = 2
    /\ UNCHANGED <<vehiclesTop, lightTop, lightBottom, carSpawnTimerTop,
                   carSpawnTimerBottom, ambulanceActive, screenAlertTimer,
                   screenAlertOn, danglingRead, run, clock, lastDelta, sinceFlip>>

KeyA ==
    /\ clock = 0 /\ keysPolled < 3
    /\ LET r == TriggerRandomAccident(vehiclesBottom, currentAccident)
       IN  /\ vehiclesBottom' = r.vb
           /\ currentAccident' = r.acc
    /\ keysPolled' = 3
    /\ UNCHANGED <<vehiclesTop, lightTop, lightBottom, carSpawnTimerTop,
                   carSpawnTimerBottom, ambulanceActive, screenAlertTimer,
                   screenAlertOn, nextId, danglingRead, spawned, run, clock,
                   lastDelta, sinceFlip>>

Next == Frame \/ KeyE \/ KeyD \/ KeyA

Spec == Init /\ [][Next]_vars

\* Frames keep being executed: the loop of main runs until the window closes.
\* The main loop never stops calling Update. Frame is enabled in every state, so
\* this is WF_vars(Frame), written without the ENABLED.
FairSpec == Spec /\ []<><<Frame>>_vars

\* --- TrafficLight::Update alone, fed frame times of every size
LightDeltas == {0, TimeScale \div 10, (5 * TimeScale) \div 4, (49 * TimeScale) \div 10,
                5 * TimeScale, 7 * TimeScale}

LightStep ==
    \E delta \in LightDeltas :
        /\ lightTop' = LightUpdate(lightTop, delta)
        /\ lastDelta' = delta
        /\ sinceFlip' = IF lightTop'.red # lightTop.red THEN 0 ELSE sinceFlip + delta
        /\ UNCHANGED <<vehiclesTop, vehiclesBottom, lightBottom, carSpawnTimerTop,
                       carSpawnTimerBottom, currentAccident, ambulanceActive,
                       screenAlertTimer, screenAlertOn, nextId, danglingRead,
                       keysPolled, spawned, run, clock>>

SpecLight == Init /\ [][LightStep]_vars

\* --- TriggerRandomAccident on the states three cars of two lanes reach
InitTrigger ==
    InitSim([top |-> 0, bottom |-> MaxCarsTrigger, ambulance |-> 0, tow |-> 0,
             thresholds |-> {20}, lanes |-> {0, 1}, steps |-> {0, 5},
             keyPeriod |-> KeyPeriodTrigger])

SpecTrigger == InitTrigger /\ [][Frame \/ KeyA]_vars

\* --- both roads with cars, an ambulance to yield to and accidents to avoid
InitRoads ==
    InitSim([top |-> MaxCarsTopRoads, bottom |-> MaxCarsBottomRoads,
             ambulance |-> MaxAmbulancesRoads, tow |-> 0,
             thresholds |-> {20}, lanes |-> {1}, steps |-> {0, 5},
             keyPeriod |-> KeyPeriodRoads])

SpecRoads == InitRoads /\ [][Frame \/ KeyE \/ KeyA]_vars

\* --- two accidents in a row: four cars of one lane and speed, an ambulance for
\* the first crash and a tow truck to clear it before the second
InitCrashes ==
    InitSim([top |-> 0, bottom |-> MaxCarsCrashes, ambulance |-> MaxAmbulancesCrashes,
             tow |-> MaxTowsCrashes, thresholds |-> {20}, lanes |-> {1}, steps |-> {0},
             keyPeriod |-> KeyPeriodCrashes])

SpecCrashes == InitCrashes /\ [][Next]_vars

\* ------------------------------------------------------------ reading the state
Ids(vs) == {vs[i].id : i \in 1..Len(vs)}
Veh(vs, p) == vs[IndexOf(vs, p)]
\* A step of Frame (a key handler leaves keysPolled at 1, 2 or 3).
FrameStep == keysPolled' = 0
Pending == currentAccident.pending
Active == currentAccident.active

\* ------------------------------------------------------------ C1
\* C1: after any sequence of frames and key events each of the accident's two
\* references is null or the id of a vehicle of the bottom road, and no step has
\* read a removed vehicle through them.
C1_NoDanglingReference ==
    /\ currentAccident.car1 = NULL \/ currentAccident.car1 \in Ids(vehiclesBottom)
    /\ currentAccident.car2 = NULL \/ currentAccident.car2 \in Ids(vehiclesBottom)
    /\ ~danglingRead

\* Both participants of a crash (the collision point is set) have been removed,
\* and the prune step nulled both references.
C1_Witness ==
    /\ currentAccident.x # 0
    /\ currentAccident.car1 = NULL /\ currentAccident.car2 = NULL
    /\ \A i \in 1..Len(vehiclesBottom) : vehiclesBottom[i].kind # "car"

\* ------------------------------------------------------------ C2
\* C2: pending turns into active only in a frame where rear.x - front.x is
\* strictly between -VEHICLE_WIDTH and VEHICLE_WIDTH - 10; active is never
\* followed directly by pending; pending and active are never both true.
C2_Step ==
    /\ (Pending /\ Active') =>
          LET gap == Veh(vehiclesBottom, currentAccident.car2).x
                     - Veh(vehiclesBottom, currentAccident.car1).x
          IN  /\ currentAccident.car1 \in Ids(vehiclesBottom)
              /\ currentAccident.car2 \in Ids(vehiclesBottom)
              /\ gap > -Px(VEHICLE_WIDTH)
              /\ gap < Px(VEHICLE_WIDTH) - Px(10)
    /\ (~Pending /\ Active') => Active
    /\ Active => ~Pending'
    /\ ~(Pending' /\ Active')

C2_PendingToActive == [][C2_Step]_vars

\* The accident is active and its two vehicles stand where they collided.
C2_Witness ==
    /\ Active
    /\ currentAccident.car1 \in Ids(vehiclesBottom)
    /\ currentAccident.car2 \in Ids(vehiclesBottom)
    /\ Veh(vehiclesBottom, currentAccident.car2).x
          - Veh(vehiclesBottom, currentAccident.car1).x < Px(VEHICLE_WIDTH) - Px(10)

\* ------------------------------------------------------------ C3
\* The tow truck the frame works with: the last one of the collection that the
\* prune step keeps (x >= -600), 0 when there is none.
LiveTow(vs) == LastOfKind(SelectSeq(vs, LAMBDA v : ~(IsDepannage(v) /\ v.x < -Px(600))),
                          "depannage")
LiveTowPickedUp(vs) ==
    LET kept == SelectSeq(vs, LAMBDA v : ~(IsDepannage(v) /\ v.x < -Px(600)))
    IN  LiveTow(vs) # 0 /\ kept[LiveTow(vs)].hasPickedUp

\* Both vehicles of the accident of the state before are towed, not crashed, and
\* the accident is none, in the state after.
BothTowedAfter ==
    /\ ~Active' /\ ~Pending'
    /\ \A p \in {currentAccident.car1, currentAccident.car2} :
          /\ p \in Ids(vehiclesBottom')
          /\ Veh(vehiclesBottom', p).isTowed
          /\ ~Veh(vehiclesBottom', p).isCrashed

\* C3 as stated: in the frame in which a tow truck's hasPickedUp becomes true
\* while the accident is active, by the end of that frame both participants are
\* towed and not crashed and the accident is none.
C3_SameFrameStep ==
    (/\ FrameStep /\ Active
     /\ \E i \in 1..Len(vehiclesBottom) :
           /\ IsDepannage(vehiclesBottom[i]) /\ ~vehiclesBottom[i].hasPickedUp
           /\ vehiclesBottom[i].id \in Ids(vehiclesBottom')
           /\ Veh(vehiclesBottom', vehiclesBottom[i].id).hasPickedUp)
    => BothTowedAfter

C3_SameFrame == [][C3_SameFrameStep]_vars

\* C3, amended: a frame that starts with the accident active and with hasPickedUp
\* set on the last tow truck of the collection ends with both participants towed
\* and not crashed and the accident none; the frame in which hasPickedUp becomes
\* true leaves the accident active and the participants crashed.
C3_NextFrameStep ==
    /\ (FrameStep /\ Active /\ LiveTowPickedUp(vehiclesBottom)) => BothTowedAfter
    /\ (/\ FrameStep /\ Active
        /\ LiveTow(vehiclesBottom) # 0 /\ ~LiveTowPickedUp(vehiclesBottom))
       => /\ Active'
          /\ \A p \in {currentAccident.car1, currentAccident.car2} :
                /\ p \in Ids(vehiclesBottom')
                /\ Veh(vehiclesBottom', p).isCrashed
                /\ ~Veh(vehiclesBottom', p).isTowed

C3_NextFrame == [][C3_NextFrameStep]_vars

\* A tow truck has picked up, the accident is none and its two vehicles are towed.
C3_Witness ==
    /\ ~Active /\ ~Pending
    /\ LiveTowPickedUp(vehiclesBottom)
    /\ currentAccident.car1 \in Ids(vehiclesBottom)
    /\ currentAccident.car2 \in Ids(vehiclesBottom)
    /\ Veh(vehiclesBottom, currentAccident.car1).isTowed
    /\ Veh(vehiclesBottom, currentAccident.car2).isTowed
    /\ ~Veh(vehiclesBottom, currentAccident.car1).isCrashed
    /\ ~Veh(vehiclesBottom, currentAccident.car2).isCrashed

\* ------------------------------------------------------------ C4
\* The frame starts with no tow truck, or with the tow truck the cleanup looks at
\* (the last of the collection) below x = -600.
TowTruckGone(vs) ==
    \/ LastOfKind(vs, "depannage") = 0
    \/ vs[LastOfKind(vs, "depannage")].x < -Px(600)

\* C4: a frame that starts with the tow truck gone removes every vehicle flagged
\* isTowed from the collection; so a towed vehicle is never in the collection
\* without a tow truck.
C4_Step ==
    (FrameStep /\ TowTruckGone(vehiclesBottom)) =>
        \A i \in 1..Len(vehiclesBottom) :
            vehiclesBottom[i].isTowed => vehiclesBottom[i].id \notin Ids(vehiclesBottom')

C4_OrphansRemoved ==
    /\ [][C4_Step]_vars
    /\ [](\A i \in 1..Len(vehiclesBottom) :
             vehiclesBottom[i].isTowed => LastOfKind(vehiclesBottom, "depannage") # 0)

\* The tow truck has passed x = -600 with towed vehicles still in the collection:
\* the state the cleanup of the next frame starts from.
C4_Witness ==
    /\ LastOfKind(vehiclesBottom, "depannage") # 0
    /\ TowTruckGone(vehiclesBottom)
    /\ \E i \in 1..Len(vehiclesBottom) : vehiclesBottom[i].isTowed

\* ------------------------------------------------------------ C5
\* The distance the spacing check measures from a trailing vehicle to a leader.
GapTop(trail, lead) == lead.x - Px(VEHICLE_WIDTH) - trail.x
GapBottom(trail, lead) == trail.x - (lead.x + Px(VEHICLE_WIDTH))

\* C5 as stated: after a frame, on each road, a vehicle that is not reckless is at
\* least SAFE_DISTANCE behind the rear edge of every vehicle ahead of it
\* with the same target lane (so also behind the nearest one).
C5_SafeDistanceKept ==
    keysPolled = 0 =>
        /\ \A i, j \in 1..Len(vehiclesTop) :
              LET v == vehiclesTop[i]
                  o == vehiclesTop[j]
              IN  (i # j /\ o.targetY = v.targetY /\ o.x > v.x /\ ~v.isReckless)
                      => GapTop(v, o) >= Px(SAFE_DISTANCE)
        /\ \A i, j \in 1..Len(vehiclesBottom) :
              LET v == vehiclesBottom[i]
                  o == vehiclesBottom[j]
              IN  (i # j /\ Abs(o.targetY - v.targetY) < Px(5) /\ o.x < v.x
                        /\ ~v.isReckless)
                      => GapBottom(v, o) >= Px(SAFE_DISTANCE)

\* A vehicle as the traffic pass of the coming frame finds it: as it is now, or
\* as it is spawned when it is not there yet.
AtPassStart(vs, p, after) == IF p \in Ids(vs) THEN Veh(vs, p) ELSE
    [after EXCEPT !.x = IF after.dirRight THEN -Px(200) ELSE Px(SCREEN_WIDTH) + Px(200),
                  !.targetY = after.y]

\* The leader as the trailing vehicle's check sees it: already updated when it
\* comes earlier in the collection, not yet when it comes later.
SeenBy(before, after, i, j) ==
    IF j < i THEN after[j] ELSE AtPassStart(before, after[j].id, after[j])

\* vs'[i] is a car that went through the spacing check of the pass and advanced.
Advanced(before, after, i) ==
    /\ after[i].kind = "car"
    /\ ~after[i].isReckless /\ ~after[i].isCrashed /\ ~after[i].isTowed
    /\ after[i].x # AtPassStart(before, after[i].id, after[i]).x

C5_TopStep ==
    \A i, j \in 1..Len(vehiclesTop') :
        LET a0 == AtPassStart(vehiclesTop, vehiclesTop'[i].id, vehiclesTop'[i])
            a1 == vehiclesTop'[i]
            o0 == AtPassStart(vehiclesTop, vehiclesTop'[j].id, vehiclesTop'[j])
            o1 == vehiclesTop'[j]
            seen == SeenBy(vehiclesTop, vehiclesTop', i, j)
        IN  (i # j /\ Advanced(vehiclesTop, vehiclesTop', i)) =>
              /\ (seen.targetY = a1.targetY /\ seen.x > a0.x)
                    => GapTop(a0, seen) >= Px(SAFE_DISTANCE)
              /\ (o0.targetY = a1.targetY /\ o0.x > a0.x)
                    => GapTop(a1, o1) >= Px(SAFE_DISTANCE) - a1.speed

C5_BottomStep ==
    \A i, j \in 1..Len(vehiclesBottom') :
        LET a0 == AtPassStart(vehiclesBottom, vehiclesBottom'[i].id, vehiclesBottom'[i])
            a1 == vehiclesBottom'[i]
            o0 == AtPassStart(vehiclesBottom, vehiclesBottom'[j].id, vehiclesBottom'[j])
            o1 == vehiclesBottom'[j]
            seen == SeenBy(vehiclesBottom, vehiclesBottom', i, j)
        IN  (i # j /\ Advanced(vehiclesBottom, vehiclesBottom', i)
                 /\ o1.kind = "car" /\ ~o1.isTowed) =>
              /\ (Abs(seen.targetY - a1.targetY) < Px(5) /\ seen.x < a0.x)
                    => GapBottom(a0, seen) >= Px(SAFE_DISTANCE)
              /\ (/\ Abs(o0.targetY - a1.targetY) < Px(5)
                  /\ o1.targetY = o0.targetY
                  /\ o0.x < a0.x)
                    => GapBottom(a1, o1) >= Px(SAFE_DISTANCE) - a1.speed

\* C5, amended: the spacing is checked before the vehicle moves. A car that is
\* not reckless advances in a frame's traffic pass only if, when the pass reaches
\* it, it is at least SAFE_DISTANCE behind the rear edge of every car ahead of it
\* with the same target lane; at the end of the pass it is then at least
\* SAFE_DISTANCE less its own speed behind each such car that was ahead of it
\* and kept its lane. A car that is closer than that does not advance.
C5_SafeDistanceChecked == [][FrameStep => (C5_TopStep /\ C5_BottomStep)]_vars

\* On each road a car has just advanced to less than SAFE_DISTANCE behind a car
\* of its lane, which it had at SAFE_DISTANCE or more when it was checked.
C5_Closer(vs, i, j, right) ==
    /\ i # j
    /\ vs[i].kind = "car" /\ vs[j].kind = "car"
    /\ ~vs[i].isReckless /\ ~vs[i].isCrashed /\ ~vs[i].isTowed /\ ~vs[j].isTowed
    /\ vs[i].moving /\ ~vs[i].forcedStop
    /\ Abs(vs[i].targetY - vs[j].targetY) < Px(5)
    /\ LET gap == IF right THEN GapTop(vs[i], vs[j]) ELSE GapBottom(vs[i], vs[j])
       IN  gap < Px(SAFE_DISTANCE) /\ gap >= Px(SAFE_DISTANCE) - vs[i].speed

C5_Witness ==
    /\ keysPolled = 0
    /\ \E i, j \in 1..Len(vehiclesTop) : C5_Closer(vehiclesTop, i, j, TRUE)
    /\ \E i, j \in 1..Len(vehiclesBottom) : C5_Closer(vehiclesBottom, i, j, FALSE)

\* ------------------------------------------------------------ C6
\* C6: whatever the deltas, a call of TrafficLight::Update flips the phase exactly
\* when the deltas fed since the previous flip, this one included, have reached
\* cycleTime; the timer is then 0; below cycleTime the phase stays.
C6_Step ==
    LET fed == sinceFlip + lastDelta'
        flips == lightTop'.red # lightTop.red
        \* a key handler moves keysPolled on and calls no Update
        called == keysPolled' = 0 \/ keysPolled' = keysPolled
    IN  IF called
        THEN /\ flips <=> fed >= lightTop.cycleTime
             /\ flips => lightTop'.timer = 0
             /\ ~flips => lightTop'.timer = fed
        ELSE lightTop' = lightTop

C6_FlipsAtCycleTime == [][C6_Step]_vars

\* The light has just flipped to green on a delta that brought the sum of the
\* deltas exactly to cycleTime or beyond.
C6_Witness ==
    /\ ~lightTop.red /\ lightTop.timer = 0 /\ sinceFlip = 0
    /\ lastDelta > 0 /\ lastDelta < lightTop.cycleTime

\* ------------------------------------------------------------ C7
\* The pairs C7 calls qualifying: vs[i] the rear and vs[j] the front car.
C7_Qualifies(vs, i, j) ==
    /\ i # j
    /\ \A k \in {i, j} :
          /\ vs[k].kind = "car"
          /\ vs[k].x >= -Px(200)
          /\ ~vs[k].isTowed /\ ~vs[k].isCrashed
    /\ vs[i].targetY - vs[j].targetY < Px(5)
    /\ vs[j].targetY - vs[i].targetY < Px(5)
    /\ vs[i].x - vs[j].x > Px(110)
    /\ vs[i].x - vs[j].x < Px(400)
    /\ vs[i].x < Px(SCREEN_WIDTH) - Px(100)
    /\ vs[j].x > Px(100)

\* C7: a call of TriggerRandomAccident with no accident outstanding takes the
\* first qualifying pair in iteration order (rear index, then front index): the
\* accident is pending with car1 the front and car2 the rear, the rear is reckless
\* at 2.8 times its speed, the front is the accident target at 0.4 times its
\* speed, both are lane-locked, nothing else changes; with no qualifying pair
\* the call changes nothing.
C7_Step ==
    (keysPolled' = 3 /\ ~Active /\ ~Pending) =>
        LET vs == vehiclesBottom
            n == Len(vs)
            pairs == {p \in (1..n) \X (1..n) : C7_Qualifies(vs, p[1], p[2])}
        IN  IF pairs = {}
            THEN vehiclesBottom' = vs /\ currentAccident' = currentAccident
            ELSE \E p \in pairs :
                    /\ \A q \in pairs : q[1] > p[1] \/ (q[1] = p[1] /\ q[2] >= p[2])
                    /\ currentAccident' = [currentAccident EXCEPT
                            !.pending = TRUE, !.car1 = vs[p[2]].id, !.car2 = vs[p[1]].id]
                    /\ Len(vehiclesBottom') = n
                    /\ vehiclesBottom'[p[1]] = [vs[p[1]] EXCEPT
                            !.isReckless = TRUE, !.laneLock = TRUE,
                            !.speed = (28 * vs[p[1]].speed) \div 10]
                    /\ vehiclesBottom'[p[2]] = [vs[p[2]] EXCEPT
                            !.isAccidentTarget = TRUE, !.laneLock = TRUE,
                            !.speed = (4 * vs[p[2]].speed) \div 10]
                    /\ \A k \in 1..n : k \notin {p[1], p[2]} => vehiclesBottom'[k] = vs[k]

StaysStopped ==
    \A i \in 1..Len(vehiclesBottom) :
        (~vehiclesBottom[i].moving /\ vehiclesBottom[i].id \in Ids(vehiclesBottom'))
            => ~Veh(vehiclesBottom', vehiclesBottom[i].id).moving

\* C8 as stated: when a pending accident becomes active the collision point is
\* the front vehicle's position (its x and y) and both participants have
\* moving = false from then on.
C8_AtFrontStep ==
    /\ (Pending /\ Active') =>
          LET front == Veh(vehiclesBottom, currentAccident.car1)
          IN  /\ currentAccident'.x = front.x
              /\ currentAccident'.y = front.y
              /\ ~Veh(vehiclesBottom', currentAccident.car1).moving
              /\ ~Veh(vehiclesBottom', currentAccident.car2).moving
    /\ StaysStopped

C8_AtFront == [][C8_AtFrontStep]_vars

\* C8, amended: the collision point is the front vehicle's y and the middle of
\* its length, x + VEHICLE_WIDTH / 2; both participants have moving = false from
\* that frame on.
C8_AtFrontCentreStep ==
    /\ (Pending /\ Active') =>
          LET front == Veh(vehiclesBottom, currentAccident.car1)
          IN  /\ currentAccident'.x = front.x + Px(VEHICLE_WIDTH) \div 2
              /\ currentAccident'.y = front.y
              /\ currentAccident'.car1 = currentAccident.car1
              /\ currentAccident'.car2 = currentAccident.car2
              /\ Veh(vehiclesBottom', currentAccident.car1).x = front.x
              /\ ~Veh(vehiclesBottom', currentAccident.car1).moving
              /\ ~Veh(vehiclesBottom', currentAccident.car2).moving
    /\ StaysStopped

C8_AtFrontCentre == [][C8_AtFrontCentreStep]_vars

\* The accident is active, its point is the middle of the front vehicle, which
\* has not moved since, and neither participant is moving.
C8_Witness ==
    /\ Active
    /\ currentAccident.car1 \in Ids(vehiclesBottom)
    /\ currentAccident.car2 \in Ids(vehiclesBottom)
    /\ currentAccident.x
          = Veh(vehiclesBottom, currentAccident.car1).x + Px(VEHICLE_WIDTH) \div 2
    /\ ~Veh(vehiclesBottom, currentAccident.car1).moving
    /\ ~Veh(vehiclesBottom, currentAccident.car2).moving

\* ------------------------------------------------------------ C9
\* C9: an ambulance whose Update runs in state TO_ACCIDENT (the state it starts
\* the frame in, or the one the crash of this frame assigns) keeps the state
\* and moves by its speed while that leaves it beyond accidentX + 160; in the
\* first Update that takes it to accidentX + 160 or below, its x is exactly
\* accidentX + 160, its state WAIT_AT_ACCIDENT and its stateTimer 0.
C9_Step ==
    FrameStep =>
        \A i \in 1..Len(vehiclesBottom) :
            LET a == vehiclesBottom[i]
                b == Veh(vehiclesBottom', a.id)
                toAccident == a.state = "TO_ACCIDENT" \/ (Pending /\ Active')
            IN  (IsAmbulance(a) /\ a.id \in Ids(vehiclesBottom') /\ toAccident) =>
                    IF a.x - a.speed <= b.accidentX + Px(160)
                    THEN /\ b.x = b.accidentX + Px(160)
                         /\ b.state = "WAIT_AT_ACCIDENT"
                         /\ b.stateTimer = 0
                    ELSE /\ b.x = a.x - a.speed
                         /\ b.state = "TO_ACCIDENT"

C9_SnapAtAccident == [][C9_Step]_vars

\* An ambulance has just arrived: it stands at accidentX + 160, waiting, timer 0.
C9_Witness ==
    \E i \in 1..Len(vehiclesBottom) :
        /\ IsAmbulance(vehiclesBottom[i])
        /\ vehiclesBottom[i].state = "WAIT_AT_ACCIDENT"
        /\ vehiclesBottom[i].stateTimer = 0
        /\ vehiclesBottom[i].x = vehiclesBottom[i].accidentX + Px(160)
        /\ vehiclesBottom[i].accidentX = currentAccident.x

\* ------------------------------------------------------------ C10
\* travelling, working, picked up
TowPhase(v) == IF v.hasPickedUp THEN 3 ELSE IF v.isWorking THEN 2 ELSE 1

TowPhaseOrder ==
    \A i \in 1..Len(vehiclesBottom) :
        LET t == vehiclesBottom[i]
        IN  (IsDepannage(t) /\ t.id \in Ids(vehiclesBottom')) =>
                \/ TowPhase(Veh(vehiclesBottom', t.id)) = TowPhase(t)
                \/ TowPhase(Veh(vehiclesBottom', t.id)) = TowPhase(t) + 1

BothTowed ==
    /\ ~Active /\ ~Pending
    /\ \A p \in {currentAccident.car1, currentAccident.car2} :
          /\ p \in Ids(vehiclesBottom)
          /\ Veh(vehiclesBottom, p).isTowed

TowOnItsWay ==
    /\ Active
    /\ \E i \in 1..Len(vehiclesBottom) :
          IsDepannage(vehiclesBottom[i]) /\ TowPhase(vehiclesBottom[i]) = 1

\* C10: from an active accident with a tow truck called, while frames keep being
\* executed, the truck goes from travelling to working to picked up, one phase at
\* a time, and eventually both participants are towed and the accident is none.
C10_TowCompletes ==
    /\ [][TowPhaseOrder]_vars
    /\ TowOnItsWay ~> BothTowed

\* The tow truck called for the accident has picked up and the participants
\* hang behind it.
C10_Witness ==
    /\ BothTowed
    /\ \E i \in 1..Len(vehiclesBottom) :
          /\ IsDepannage(vehiclesBottom[i]) /\ TowPhase(vehiclesBottom[i]) = 3
          /\ vehiclesBottom[i].targetX = currentAccident.x
          /\ Veh(vehiclesBottom, currentAccident.car1).x < vehiclesBottom[i].targetX

\* ------------------------------------------------------------ C11
\* C11: a press of A (TriggerRandomAccident) while the accident is pending or
\* active leaves the whole Simulation as it was: the accident, every vehicle.
C11_Step == (keysPolled' = 3 /\ (Pending \/ Active)) => Sim' = Sim

C11_TriggerWhileOutstanding == [][C11_Step]_vars

\* A was pressed right after E, which left an accident pending and its ambulance at
\* the spawn edge; the two participants would qualify as a pair once more.
C11_Witness ==
    /\ keysPolled = 3 /\ Pending
    /\ FirstPair(vehiclesBottom) # <<0, 0>>
    /\ \E i \in 1..Len(vehiclesBottom) :
          /\ IsAmbulance(vehiclesBottom[i])
          /\ vehiclesBottom[i].x = Px(SCREEN_WIDTH) + Px(200)

\* ------------------------------------------------------------ C12
\* C12: a press of D (CallDepannage) while the accident is not active, none or
\* pending, adds no tow truck and changes nothing of the Simulation.
C12_Step == (keysPolled' = 2 /\ ~Active) => Sim' = Sim

C12_NoTowWithoutAccident == [][C12_Step]_vars

\* D was pressed with the accident pending: no tow truck is on the road.
C12_Witness ==
    /\ keysPolled = 2 /\ Pending
    /\ Len(vehiclesBottom) >= 2
    /\ LastOfKind(vehiclesBottom, "depannage") = 0

\* ------------------------------------------------------------ C13
\* The gap of the accident a state holds: rear.x - front.x.
AccidentGap(vs, acc) == Veh(vs, acc.car2).x - Veh(vs, acc.car1).x

BothReferencesLive(vs, acc) ==
    /\ acc.car1 # NULL /\ acc.car2 # NULL /\ acc.car1 # acc.car2
    /\ acc.car1 \in Ids(vs) /\ acc.car2 \in Ids(vs)

C13_Step ==
    (FrameStep /\ Pending /\ Pending') =>
        /\ currentAccident'.car1 = currentAccident.car1
        /\ currentAccident'.car2 = currentAccident.car2
        /\ AccidentGap(vehiclesBottom', currentAccident')
              < AccidentGap(vehiclesBottom, currentAccident)

\* C13: while the accident is pending both references are non-null and refer to
\* vehicles of the bottom road, and every frame that leaves it pending makes the
\* gap rear.x - front.x strictly smaller.
C13_PendingClosing ==
    /\ [](Pending => BothReferencesLive(vehiclesBottom, currentAccident))
    /\ [][C13_Step]_vars

\* The accident is still pending after frames that closed the gap below the 110
\* it had to exceed when the pair was chosen.
C13_Witness ==
    /\ keysPolled = 0 /\ Pending
    /\ BothReferencesLive(vehiclesBottom, currentAccident)
    /\ AccidentGap(vehiclesBottom, currentAccident) < Px(110)
    /\ AccidentGap(vehiclesBottom, currentAccident) >= Px(VEHICLE_WIDTH) - Px(10)

\* ------------------------------------------------------------ C14
CrashedAndImmobile(v) == v.isCrashed /\ ~v.moving

C14_Step ==
    (Active /\ Active') =>
        /\ currentAccident'.car1 = currentAccident.car1
        /\ currentAccident'.car2 = currentAccident.car2
        /\ \A p \in {currentAccident.car1, currentAccident.car2} :
              Veh(vehiclesBottom', p).x = Veh(vehiclesBottom, p).x

\* C14: while the accident is active both references are non-null and refer to
\* vehicles of the bottom road with isCrashed = true and moving = false, and no
\* step that leaves it active changes the x of either.
C14_ActiveImmobile ==
    /\ [](Active =>
            /\ BothReferencesLive(vehiclesBottom, currentAccident)
            /\ CrashedAndImmobile(Veh(vehiclesBottom, currentAccident.car1))
            /\ CrashedAndImmobile(Veh(vehiclesBottom, currentAccident.car2)))
    /\ [][C14_Step]_vars

\* The accident has been active over frames: an ambulance has been waiting at it.
C14_Witness ==
    /\ keysPolled = 0 /\ Active
    /\ CrashedAndImmobile(Veh(vehiclesBottom, currentAccident.car1))
    /\ CrashedAndImmobile(Veh(vehiclesBottom, currentAccident.car2))
    /\ \E i \in 1..Len(vehiclesBottom) :
          /\ IsAmbulance(vehiclesBottom[i])
          /\ vehiclesBottom[i].state = "WAIT_AT_ACCIDENT"
          /\ vehiclesBottom[i].stateTimer >= Sec(2)

\* ------------------------------------------------------------ C15
\* The place of a state in the order of enum AmbulanceState.
StateRank(s) ==
    CASE s = "PATROL" -> 0
      [] s = "TO_ACCIDENT" -> 1
      [] s = "WAIT_AT_ACCIDENT" -> 2
      [] s = "TO_HOSPITAL" -> 3
      [] s = "WAIT_AT_HOSPITAL" -> 4
      [] s = "LEAVING" -> 5

C15_Step ==
    \A i \in 1..Len(vehiclesBottom) :
        LET a == vehiclesBottom[i]
        IN  (IsAmbulance(a) /\ a.id \in Ids(vehiclesBottom')) =>
                StateRank(Veh(vehiclesBottom', a.id).state) >= StateRank(a.state)

\* C15 as stated: no step takes an ambulance to an earlier state of the order
\* Patrol, ToAccident, WaitAtAccident, ToHospital, WaitAtHospital, Leaving; so an
\* ambulance in Leaving stays in Leaving while it is on the road.
C15_StateOnlyForward == [][C15_Step]_vars

\* ------------------------------------------------------------ C16
\* The vehicles that were there before the last one was pushed back.
AllButLast(vs) == SubSeq(vs, 1, Len(vs) - 1)

C16_Step ==
    keysPolled' = 1 =>
        LET amb == vehiclesBottom'[Len(vehiclesBottom')]
            before == AllButLast(vehiclesBottom')
        IN  /\ Len(vehiclesBottom') = Len(vehiclesBottom) + 1
            /\ IsAmbulance(amb)
            /\ amb.id \notin Ids(vehiclesBottom)
            /\ amb.x = Px(SCREEN_WIDTH) + Px(200) /\ amb.y = laneYBottom(1)
            /\ \A i \in 1..Len(vehiclesBottom) : before[i].id = vehiclesBottom[i].id
            \* an accident outstanding: nothing else changes
            /\ (Pending \/ Active) =>
                  before = vehiclesBottom /\ currentAccident' = currentAccident
            \* none: TriggerRandomAccident runs first
            /\ (~Pending /\ ~Active) =>
                  /\ ~Active'
                  /\ Pending' <=> \E i, j \in 1..Len(vehiclesBottom) :
                                      C7_Qualifies(vehiclesBottom, i, j)
                  /\ Pending' =>
                        /\ Veh(before, currentAccident'.car2).isReckless
                        /\ Veh(before, currentAccident'.car1).isAccidentTarget
                  /\ ~Pending' =>
                        before = vehiclesBottom /\ currentAccident' = currentAccident
            /\ IF Active
               THEN /\ amb.state = "TO_ACCIDENT"
                    /\ amb.accidentX = currentAccident.x
                    /\ amb.accidentY = currentAccident.y
                    /\ amb.targetY = currentAccident.y
               ELSE /\ amb.state = "PATROL"
                    /\ amb.targetY = laneYBottom(1)

\* C16: every CallAmbulance pushes exactly one new ambulance on the bottom road,
\* at the spawn edge in lane 1; with no accident outstanding it first runs
\* TriggerRandomAccident; the ambulance is in ToAccident, with the collision
\* point as accidentX, accidentY and the accident's y as target lane, if the
\* accident is active, and in Patrol otherwise.
C16_CallAmbulance == [][C16_Step]_vars

\* E has just been pressed with the accident active: the new ambulance is assigned.
C16_Witness ==
    /\ keysPolled = 1 /\ Active
    /\ Len(vehiclesBottom) >= 3
    /\ LET amb == vehiclesBottom[Len(vehiclesBottom)]
       IN  /\ IsAmbulance(amb) /\ amb.state = "TO_ACCIDENT"
           /\ amb.x = Px(SCREEN_WIDTH) + Px(200)
           /\ amb.accidentX = currentAccident.x

\* ------------------------------------------------------------ C17
\* The address of the tow truck the frame's tow steps work with, NULL if none.
ActiveTowId(vs) ==
    IF LastOfKind(vs, "depannage") = 0 THEN NULL
    ELSE vs[LastOfKind(vs, "depannage")].id

\* The tow truck moves in the traffic loop only, after the towed positions are
\* set: where it is when they are set is where it was when the frame began.
C17_Step ==
    /\ FrameStep =>
          \A i \in 1..Len(vehiclesBottom') :
              LET v == vehiclesBottom'[i]
                  t == ActiveTowId(vehiclesBottom')
              IN  v.isTowed =>
                    /\ t # NULL /\ t \in Ids(vehiclesBottom)
                    /\ Veh(vehiclesBottom, t).hasPickedUp
                    /\ v.x = Veh(vehiclesBottom, t).x + v.towOffsetX
                    /\ v.y = Veh(vehiclesBottom, t).y
                    /\ v.towOffsetX \in {Px(100), Px(200)}
                    /\ v.id = currentAccident'.car1 => v.towOffsetX = Px(100)
                    /\ v.id = currentAccident'.car2 => v.towOffsetX = Px(200)
    \* the truck a towed vehicle follows is the same from step to step
    /\ (\E i \in 1..Len(vehiclesBottom) :
            vehiclesBottom[i].isTowed /\ vehiclesBottom[i].id \in Ids(vehiclesBottom'))
          => ActiveTowId(vehiclesBottom') = ActiveTowId(vehiclesBottom)

\* C17: in every frame that leaves a towed vehicle on the road, the position the
\* tow steps give it is that of the tow truck that picked it up (at that point of
\* the frame, before the truck moves) plus its offset, 100 for the front car and
\* 200 for the rear car; the truck is the same in every frame, also with more
\* than one tow truck on the road.
C17_TowedFollowsTruck == [][C17_Step]_vars

\* Two tow trucks are on the road, apart; both cars hang behind the one that
\* picked them up, which has since moved on by its speed.
C17_Witness ==
    /\ keysPolled = 0
    /\ \E i, j, k \in 1..Len(vehiclesBottom) :
          /\ IsDepannage(vehiclesBottom[i]) /\ IsDepannage(vehiclesBottom[j])
          /\ i < j /\ vehiclesBottom[i].x # vehiclesBottom[j].x
          /\ vehiclesBottom[k].isTowed
          /\ vehiclesBottom[k].x
                = vehiclesBottom[j].x + vehiclesBottom[j].speed + vehiclesBottom[k].towOffsetX

\* ------------------------------------------------------------ C18
\* The x a tow truck heads for: 180 behind its target.
Standoff(t) == t.targetX + Px(180)

\* C18 as stated: a tow truck that has not picked up is never below
\* targetX + 180.
C18_NeverPastStandoff ==
    \A i \in 1..Len(vehiclesBottom) :
        (IsDepannage(vehiclesBottom[i]) /\ ~vehiclesBottom[i].hasPickedUp)
            => vehiclesBottom[i].x >= Standoff(vehiclesBottom[i])

C18_Step ==
    \A i \in 1..Len(vehiclesBottom) :
        LET t == vehiclesBottom[i]
        IN  (IsDepannage(t) /\ ~t.hasPickedUp /\ t.id \in Ids(vehiclesBottom')) =>
                LET u == Veh(vehiclesBottom', t.id)
                IN  /\ (t.x <= Standoff(t) \/ t.isWorking) => u.x = t.x
                    /\ u.x # t.x => (u.x = t.x - t.speed /\ t.x > Standoff(t))

\* C18, amended: a tow truck that has not picked up takes a step of its speed
\* only from an x above targetX + 180, and none once it is at or below it or
\* working: its x stays above targetX + 180 - speed, so it can stop past the
\* standoff by less than one step (its speed, 3.5).
C18_PastStandoffByLessThanAStep ==
    /\ [](\A i \in 1..Len(vehiclesBottom) :
            (IsDepannage(vehiclesBottom[i]) /\ ~vehiclesBottom[i].hasPickedUp)
                => vehiclesBottom[i].x > Standoff(vehiclesBottom[i]) - vehiclesBottom[i].speed)
    /\ [][C18_Step]_vars

\* A tow truck is working at an x below targetX + 180.
C18_Witness ==
    \E i \in 1..Len(vehiclesBottom) :
        /\ IsDepannage(vehiclesBottom[i])
        /\ vehiclesBottom[i].isWorking /\ ~vehiclesBottom[i].hasPickedUp
        /\ vehiclesBottom[i].x < Standoff(vehiclesBottom[i])
        /\ vehiclesBottom[i].x > Standoff(vehiclesBottom[i]) - vehiclesBottom[i].speed

\* ------------------------------------------------------------ C19
\* C19 as stated: a tow truck that has picked up moves back toward the spawn
\* edge x = SCREEN_WIDTH + 200 it came from, its x growing in every frame.
C19_ReversesStep ==
    FrameStep =>
        \A i \in 1..Len(vehiclesBottom) :
            LET t == vehiclesBottom[i]
            IN  (IsDepannage(t) /\ t.hasPickedUp /\ t.id \in Ids(vehiclesBottom'))
                    => Veh(vehiclesBottom', t.id).x > t.x

C19_Reverses == [][C19_ReversesStep]_vars

C19_KeepsDirectionStep ==
    FrameStep =>
        \A i \in 1..Len(vehiclesBottom) :
            LET t == vehiclesBottom[i]
            IN  IsDepannage(t) =>
                  \* the removal step takes it when it is beyond x = -600
                  /\ t.id \in Ids(vehiclesBottom') <=> t.x >= -Px(600)
                  /\ t.id \in Ids(vehiclesBottom') =>
                        LET u == Veh(vehiclesBottom', t.id)
                        IN  /\ u.x <= t.x
                            /\ t.hasPickedUp => (u.x = t.x - t.speed /\ u.hasPickedUp)

\* C19, amended: a tow truck never reverses. It comes from the spawn edge
\* x = SCREEN_WIDTH + 200 toward decreasing x, and from the frame after
\* hasPickedUp is set it goes on toward decreasing x, by its speed every frame,
\* away from the spawn edge, until the removal step finds it below x = -600.
C19_KeepsDirection ==
    /\ [](\A i \in 1..Len(vehiclesBottom) :
            IsDepannage(vehiclesBottom[i])
                => /\ ~vehiclesBottom[i].dirRight
                   /\ vehiclesBottom[i].x <= Px(SCREEN_WIDTH) + Px(200))
    /\ [][C19_KeepsDirectionStep]_vars

\* A tow truck that picked up is about to be removed, beyond the left edge.
C19_Witness ==
    \E i \in 1..Len(vehiclesBottom) :
        /\ IsDepannage(vehiclesBottom[i]) /\ vehiclesBottom[i].hasPickedUp
        /\ vehiclesBottom[i].x < -Px(600)
        /\ vehiclesBottom[i].x < Standoff(vehiclesBottom[i]) - Px(SCREEN_WIDTH)

\* ------------------------------------------------------------ C20
C20_Step ==
    \A i \in 1..Len(vehiclesBottom) :
        LET a == vehiclesBottom[i]
        IN  (IsAmbulance(a) /\ a.id \in Ids(vehiclesBottom'))
                => Veh(vehiclesBottom', a.id).x <= a.x

\* C20 as stated: no step, frame or key event, dispatch and retargeting
\* included, leaves an ambulance at a greater x than it had before.
C20_NeverMovesRight == [][C20_Step]_vars

\* ------------------------------------------------------------ C21
\* The stop line of the bottom road and the window around it in which a red
\* light stops a car.
StopXBottom == GetStopLineX(lightBottom, TRUE)
InStopWindow(x, stopX) == Abs(x - stopX) < Px(50)

C21_Step ==
    FrameStep =>
        \A i \in 1..Len(vehiclesBottom) :
            LET v == vehiclesBottom[i]
            IN  (/\ v.isReckless /\ v.id \in Ids(vehiclesBottom')
                 /\ Veh(vehiclesBottom', v.id).isReckless) =>
                    LET w == Veh(vehiclesBottom', v.id)
                    IN  /\ w.x = IF v.dirRight THEN v.x + v.speed ELSE v.x - v.speed
                        /\ w.speed = v.speed
                        /\ ~w.forcedStop

\* C21: in every frame that a reckless vehicle starts and ends reckless, its x
\* advances by exactly its speed in its travel direction, whatever the phase of
\* the light, its forcedStop flag and the vehicles ahead of it.
C21_RecklessAdvances == [][C21_Step]_vars

\* The last frame took the reckless car forward although the light was red with
\* the car inside the stop window, and it is now closer than the 110 of the
\* trigger to the front car, inside the safe distance.
C21_Witness ==
    /\ keysPolled = 0 /\ Pending
    /\ BothReferencesLive(vehiclesBottom, currentAccident)
    /\ LET r == Veh(vehiclesBottom, currentAccident.car2)
       IN  /\ r.isReckless
           /\ lightBottom.red
           /\ InStopWindow(r.x + r.speed, StopXBottom)
           /\ AccidentGap(vehiclesBottom, currentAccident) < Px(110)
           /\ GapBottom(r, Veh(vehiclesBottom, currentAccident.car1)) < Px(SAFE_DISTANCE)

\* ------------------------------------------------------------ C22
StopXTop == GetStopLineX(lightTop, FALSE)

\* A car the light check of the traffic pass applies to.
ObeysLight(v) == v.kind = "car" /\ ~v.isReckless /\ ~v.isCrashed /\ ~v.isTowed

\* The pass reads the light after its Update of the frame and the x the car had
\* when the frame began; the flags are those the steps before the pass leave.
C22_Road(before, after, red, stopX, right) ==
    \A i \in 1..Len(before) :
        LET v == before[i]
        IN  (v.id \in Ids(after) /\ ObeysLight(Veh(after, v.id)) /\ red) =>
                LET w == Veh(after, v.id)
                IN  \* inside the window: held
                    /\ InStopWindow(v.x, stopX) => w.x = v.x
                    \* short of the window: not beyond it after the frame
                    /\ (right /\ v.x <= stopX - Px(50)) => w.x < stopX + Px(50)
                    /\ (~right /\ v.x >= stopX + Px(50)) => w.x > stopX - Px(50)

C22_Step ==
    FrameStep =>
        /\ C22_Road(vehiclesTop, vehiclesTop', lightTop'.red, StopXTop, TRUE)
        /\ C22_Road(vehiclesBottom, vehiclesBottom', lightBottom'.red, StopXBottom, FALSE)

\* C22: on both roads a car that is not reckless, crashed or towed and is within
\* 50 of its road's stop line at the traffic pass of a frame whose light is red
\* keeps its x in that frame, and a car short of the window is not beyond it
\* after a frame with the light red: no car crosses the window on red.
C22_StopsAtRed == [][C22_Step]_vars

\* A car of the road stands inside the stop window, held by the red light alone:
\* every vehicle ahead of it is at the safe distance or more.
HeldAtRed(vs, red, stopX, right) ==
    \E i \in 1..Len(vs) :
        /\ ObeysLight(vs[i]) /\ vs[i].forcedStop /\ vs[i].moving
        /\ red /\ InStopWindow(vs[i].x, stopX)
        /\ \A j \in 1..Len(vs) :
              j # i => IF right
                       THEN vs[j].x > vs[i].x => GapTop(vs[i], vs[j]) >= Px(SAFE_DISTANCE)
                       ELSE vs[j].x < vs[i].x => GapBottom(vs[i], vs[j]) >= Px(SAFE_DISTANCE)

C22_Witness ==
    /\ keysPolled = 0
    /\ HeldAtRed(vehiclesTop, lightTop.red, StopXTop, TRUE)
    /\ HeldAtRed(vehiclesBottom, lightBottom.red, StopXBottom, FALSE)

\* ------------------------------------------------------------ C23
\* The vehicles a frame attaches to a tow truck: not towed before, towed after.
NewlyTowed ==
    {i \in 1..Len(vehiclesBottom) :
        /\ ~vehiclesBottom[i].isTowed
        /\ vehiclesBottom[i].id \in Ids(vehiclesBottom')
        /\ Veh(vehiclesBottom', vehiclesBottom[i].id).isTowed}

\* CallDepannage runs between frames, on an active accident only, and gives the
\* truck the collision point as target: a truck dispatched for the accident the
\* frame clears was on the road, with that target, when the frame began, and the
\* accident was active then.
C23_Step ==
    (FrameStep /\ NewlyTowed # {}) =>
        /\ Active
        /\ ActiveTowId(vehiclesBottom') \in Ids(vehiclesBottom)
        /\ Veh(vehiclesBottom, ActiveTowId(vehiclesBottom')).targetX = currentAccident.x
        /\ \A i \in 1..Len(vehiclesBottom) : ~vehiclesBottom[i].isTowed

\* C23 as stated: vehicles become towed only in a frame that begins with their
\* accident active and with the attaching tow truck dispatched to its collision
\* point, and that truck has no vehicles of an earlier accident in tow.
C23_TowedByOwnTruck == [][C23_Step]_vars

\* ------------------------------------------------------------ C24
\* The frame took the crash branch of the pending accident logic: the gap it read
\* was inside the window, both vehicles are stopped and marked, the collision
\* point is set.
Collided ==
    /\ BothReferencesLive(vehiclesBottom, currentAccident)
    /\ AccidentGap(vehiclesBottom, currentAccident) < Px(VEHICLE_WIDTH) - Px(10)
    /\ AccidentGap(vehiclesBottom, currentAccident) > -Px(VEHICLE_WIDTH)
    /\ currentAccident'.car1 = currentAccident.car1
    /\ currentAccident'.car2 = currentAccident.car2
    /\ BothReferencesLive(vehiclesBottom', currentAccident')
    /\ ~Veh(vehiclesBottom', currentAccident.car1).moving
    /\ ~Veh(vehiclesBottom', currentAccident.car2).moving
    /\ ~Veh(vehiclesBottom', currentAccident.car2).isReckless

C24_EndsActiveStep == (Pending /\ ~Pending') => (Collided /\ Active')

\* C24 as stated, its safety part: a pending accident is left only for active,
\* never for none, and while it is pending the rear vehicle is never
\* VEHICLE_WIDTH or more ahead of the front vehicle (no tunnelling).
C24_PendingEndsActive ==
    /\ [][C24_EndsActiveStep]_vars
    /\ [](Pending => AccidentGap(vehiclesBottom, currentAccident) > -Px(VEHICLE_WIDTH))

\* What does hold of every pending accident: it is left only by the crash branch,
\* from a gap inside the detection window, and at the end of that frame it is
\* active or, with a tow truck that has picked up on the road, already none with
\* both vehicles towed; while it is pending the rear vehicle stays behind the
\* front one.
C24_EndsInCrashStep ==
    (Pending /\ ~Pending') =>
        /\ FrameStep /\ Collided
        /\ \/ Active'
           \/ /\ ~Active'
              /\ LiveTowPickedUp(vehiclesBottom)
              /\ Veh(vehiclesBottom', currentAccident.car1).isTowed
              /\ Veh(vehiclesBottom', currentAccident.car2).isTowed

C24_EndsInCrash ==
    /\ [][C24_EndsInCrashStep]_vars
    /\ [](Pending => AccidentGap(vehiclesBottom, currentAccident) > 0)

\* With frames kept being executed a pending accident does not stay pending.
C24_PendingEnds == Pending ~> ~Pending

\* The same runs as SpecCrashes, with frames kept being executed.
FairSpecCrashes == SpecCrashes /\ []<><<Frame>>_vars

\* ------------------------------------------------------------ C25
\* The addresses of the vehicles of a road with the reckless flag set.
Reckless(vs) == {vs[i].id : i \in {j \in 1..Len(vs) : vs[j].isReckless}}

\* C25: in every state at most one vehicle is reckless; one is exactly when the
\* accident is pending, and it is then the accident's rear reference car2; once
\* the accident is no longer pending, no vehicle is reckless.
C25_OneRecklessWhilePending ==
    /\ Cardinality(Reckless(vehiclesBottom)) <= 1
    /\ Reckless(vehiclesTop) = {}
    /\ Pending <=> Reckless(vehiclesBottom) # {}
    /\ Pending => Reckless(vehiclesBottom) = {currentAccident.car2}

\* A second accident is pending with its rear car reckless, while the rear car of
\* the first accident, towed, is still on the road and no longer reckless.
C25_Witness ==
    /\ keysPolled = 0 /\ Pending
    /\ Reckless(vehiclesBottom) = {currentAccident.car2}
    /\ \E i \in 1..Len(vehiclesBottom) :
          /\ vehiclesBottom[i].isTowed /\ vehiclesBottom[i].towOffsetX = Px(200)
          /\ ~vehiclesBottom[i].moving /\ ~vehiclesBottom[i].isReckless

\* ------------------------------------------------------------ C26
\* --- the top road alone: cars of two lanes, the slowest and the fastest,
\* spawned at every time the draw of GetRandomValue(20, 35) allows
InitTop ==
    InitSim([top |-> MaxCarsTopOnly, bottom |-> 0, ambulance |-> 0, tow |-> 0,
             thresholds |-> {20, 35}, lanes |-> {0, 1}, steps |-> {0, 5},
             keyPeriod |-> KeyPeriodTop])

SpecTop == InitTop /\ [][Frame]_vars

\* Frames keep being executed (Frame is enabled in every state).
FairSpecTop == SpecTop /\ []<><<Frame>>_vars

\* A car of the top road leaves the collection only from beyond the off-screen
\* margin, in the first frame that finds it there; until then it never moves back.
C26_Step ==
    \A i \in 1..Len(vehiclesTop) :
        LET v == vehiclesTop[i]
        IN  /\ v.id \in Ids(vehiclesTop') <=> v.x <= Px(SCREEN_WIDTH) + Px(200)
            /\ v.id \in Ids(vehiclesTop') =>
                  \/ Veh(vehiclesTop', v.id).x = v.x
                  \/ Veh(vehiclesTop', v.id).x = v.x + v.speed

\* C26: with frames of positive delta kept being executed, every car spawned on
\* the top road eventually is beyond the off-screen margin and is removed from
\* the collection, whatever its spawn time, lane and speed and those of the
\* other cars.
C26_TopCarsLeave ==
    /\ [][C26_Step]_vars
    /\ \A p \in 1..MaxCarsTopOnly :
          (p \in Ids(vehiclesTop)) ~> (p \notin Ids(vehiclesTop))
    /\ <>(spawned.top = MaxCarsTopOnly /\ vehiclesTop = <<>>)

\* Every car of the run has been spawned and none is left on the top road.
C26_Witness ==
    /\ spawned.top = MaxCarsTopOnly /\ nextId = MaxCarsTopOnly + 1
    /\ vehiclesTop = <<>>
====
